---- MODULE Spec2Model ----
(***************************************************************************)
(* Model of ordis' completion client (src/llm/client.ts): one call of      *)
(* LLMClient.extract, with its retry loop (chatWithRetry), one network     *)
(* attempt (chat), the error classification (handleErrorResponse), the     *)
(* backoff computation (calculateDelay) and the first checks of the        *)
(* response parser (parseExtractionResponse).                              *)
(*                                                                         *)
(* An async function is cut at its awaits: pc names the await the call is  *)
(* suspended at, and each action is the code that runs from the settling   *)
(* of one awaited promise up to the next await.                            *)
(*                                                                         *)
(* Times are kept in ticks, TicksPerMs ticks to the millisecond, so that   *)
(* the jitter exponentialDelay * 0.25 * Math.random() is exact for the     *)
(* sampled values of Math.random().                                        *)
(***************************************************************************)
EXTENDS Integers, Sequences, FiniteSets, TLC

VARIABLES
    retryConfig,  \* this.retryConfig, fixed by the constructor
    pc,           \* where the call of extract is suspended
    attempt,      \* chatWithRetry's local attempt
    lastError,    \* chatWithRetry's local lastError
    delay,        \* the delay last passed to sleep
    requests,     \* number of fetch calls made by this call of extract
    sleeps,       \* number of sleep calls made by this call of extract
    timer,        \* the timeout timer of the current attempt (timeoutId)
    elapsed,      \* config.timeout has passed since the current attempt began
    response,     \* the Response of the current attempt, once fetch resolved
    thrown,       \* the error extract rejected with
    config,       \* this.config, fixed by the constructor
    options,      \* the options extract was called with
    request,      \* the LLMRequest extract built
    sent,         \* the calls of fetch made, in order
    schemaFields, \* the field names of the schema passed to extract
    llmResponse,  \* the LLMResponse handed to parseExtractionResponse
    parsePc,      \* "called", then "returned" or "thrown"
    extraction,   \* what parseExtractionResponse returned or threw
    calls,        \* the calls of extract running on one shared client
    pipeline,     \* one run of the extraction pipeline
    prompts,      \* calls of the prompt builder and what they returned
    loader,       \* one call of a schema loader
    cli           \* one run of the extract command

\* the state of one call of extract up to the parsing of the response
requestVars == <<config, options, request, sent>>
clientVars == <<retryConfig, pc, attempt, lastError, delay, requests, sleeps,
                timer, elapsed, response, thrown, requestVars>>

\* the state of one call of parseExtractionResponse
parserVars == <<schemaFields, llmResponse, parsePc, extraction>>

\* the calls of extract that share one LLMClient: for each its pc, its
\* attempt and lastError, the requests it sent, the waits it slept and what
\* its calls of chat gave
concurrentVars == <<calls>>

\* one run of the extraction pipeline: its pc, the schema it was given, what
\* the completion client gave it and the ExtractionResult it returns
pipelineVars == <<pipeline>>

\* the calls of buildSystemPrompt and buildUserPrompt: their arguments, how
\* many calls were made, and the prompts returned
promptVars == <<prompts>>

\* one call of loadSchema, parseSchema or loadSchemaFromObject (its argument,
\* the steps it took, what it returned or threw), and one run of the extract
\* command of the command line
commandVars == <<loader, cli>>

\* what each part leaves alone
notClientVars ==
    <<parserVars, concurrentVars, pipelineVars, promptVars, commandVars>>
notParserVars ==
    <<clientVars, concurrentVars, pipelineVars, promptVars, commandVars>>
notConcurrentVars ==
    <<clientVars, parserVars, pipelineVars, promptVars, commandVars>>
notPipelineVars ==
    <<clientVars, parserVars, concurrentVars, promptVars, commandVars>>
notPromptVars ==
    <<clientVars, parserVars, concurrentVars, pipelineVars, commandVars>>
notCommandVars ==
    <<clientVars, parserVars, concurrentVars, pipelineVars, promptVars>>

vars == <<clientVars, parserVars, concurrentVars, pipelineVars, promptVars,
          commandVars>>

----------------------------------------------------------------------------
(* Bounds of the model *)

\* Math.random() is sampled at k / JitterSteps, k in 0 .. JitterSteps - 1
JitterSteps == 4

\* custom retry policies have maxRetries in 0 .. MaxRetriesBound
MaxRetriesBound == 2

\* at most MaxPromptCalls calls of the prompt builder are followed
MaxPromptCalls == 3

----------------------------------------------------------------------------
(* Program constants *)

DefaultMaxRetries == 3
DefaultInitialDelay == 1000
DefaultMaxDelay == 10000
DefaultBackoffFactor == 2
DefaultTemperature == 0
DefaultMaxTokens == 2000

TicksPerMs == 4 * JitterSteps

RandomSamples == 0 .. (JitterSteps - 1)

LLMErrorCodes ==
    {"NETWORK_ERROR", "API_ERROR", "TIMEOUT", "INVALID_RESPONSE",
     "AUTHENTICATION_ERROR", "RATE_LIMIT"}

DefaultRetryConfig ==
    [maxRetries |-> DefaultMaxRetries, initialDelay |-> DefaultInitialDelay,
     maxDelay |-> DefaultMaxDelay, backoffFactor |-> DefaultBackoffFactor]

\* config.retries || the default policy
RetryConfigs ==
    {DefaultRetryConfig}
    \cup [maxRetries : 0 .. MaxRetriesBound, initialDelay : {100},
          maxDelay : {250}, backoffFactor : {1, 2}]
    \cup [maxRetries : {1}, initialDelay : {0, 3000}, maxDelay : {2500},
          backoffFactor : {3}]

----------------------------------------------------------------------------
(* The environment: what the server and the network can answer *)

\* HTTP statuses a response can carry
Statuses == {200, 201, 400, 401, 403, 404, 429, 500, 503}

\* response.headers.get('Retry-After'): <<>> is null (no header), <<s>> the
\* header text s
HttpDate == "Wed, 21 Oct 2026 07:28:00 GMT"
RetryAfterHeaders ==
    {<<>>, <<"">>, <<"0">>, <<"2">>, <<"20">>, <<"-1">>, <<"0.5">>, <<HttpDate>>}

\* what response.json() of a 2xx response resolves with
\*   "null"       the JSON text null
\*   "nochoices"  an object without choices, or with choices: []
\*   "nocontent"  choices[0] without message, or message without content
\*   "badcontent" content that parseExtractionResponse rejects
\*   "valid"      content that parseExtractionResponse accepts
JsonBodies == {"null", "nochoices", "nocontent", "badcontent", "valid"}

\* why response.json() of a 2xx response rejects
\*   "SyntaxError" the body is not JSON
\*   "TypeError"   the body stream failed (connection lost while reading)
JsonRejections == {"SyntaxError", "TypeError"}

\* response.json() of an error response: resolves with error.message set,
\* resolves without it, or rejects
ErrorBodies == {"message", "nomessage", "unparseable"}

NoResponse == [status |-> 0, retryAfter |-> <<>>, body |-> "none"]

----------------------------------------------------------------------------
(* LLMError values *)

\* new LLMError(message, code, statusCode, details); statusCode 0 is
\* undefined, retryAfter <<>> is details.retryAfter unset
LLMError(message, code, statusCode, retryAfter) ==
    [name |-> "LLMError", message |-> message, code |-> code,
     statusCode |-> statusCode, retryAfter |-> retryAfter]

\* lastError before any attempt failed (null), and thrown before the call ends
NoError ==
    [name |-> "null", message |-> "", code |-> "none", statusCode |-> 0,
     retryAfter |-> <<>>]

\* an error that is not an LLMError (a TypeError thrown by the parser)
PlainError(name) ==
    [name |-> name, message |-> "", code |-> "none", statusCode |-> 0,
     retryAfter |-> <<>>]

----------------------------------------------------------------------------
(* Pure functions of the client *)

\* Response.ok
ok(status) == status >= 200 /\ status <= 299

\* a JavaScript string used as a condition: the empty string is falsy
Truthy(header) == header # <<>> /\ header[1] # ""

RECURSIVE MathPow(_, _)
MathPow(base, exponent) ==
    IF exponent = 0 THEN 1 ELSE base * MathPow(base, exponent - 1)

\* a JavaScript number: NaN, or t ticks
NaN == [nan |-> TRUE, t |-> 0]
Num(t) == [nan |-> FALSE, t |-> t]

\* Number(text) * 1000, in ticks, for the header texts of RetryAfterHeaders
NumberTimes1000(text) ==
    CASE text = ""    -> Num(0)
      [] text = "0"   -> Num(0)
      [] text = "2"   -> Num(2000 * TicksPerMs)
      [] text = "20"  -> Num(20000 * TicksPerMs)
      [] text = "-1"  -> Num((0 - 1000) * TicksPerMs)
      [] text = "0.5" -> Num(500 * TicksPerMs)
      [] OTHER        -> NaN

\* Math.min(a, b): NaN if either is NaN
MathMin(a, b) ==
    IF a.nan \/ b.nan THEN NaN
    ELSE IF a.t <= b.t THEN a ELSE b

\* isRetryableError with AUTHENTICATION_ERROR added to retryableCodes
isRetryableErrorWithAuth(error) ==
    error.code \in {"NETWORK_ERROR", "TIMEOUT", "RATE_LIMIT", "API_ERROR",
                    "AUTHENTICATION_ERROR"}

isRetryableError(error) ==
    error.code \in {"NETWORK_ERROR", "TIMEOUT", "RATE_LIMIT", "API_ERROR"}

\* calculateDelay(attempt, error) under policy cfg, with Math.random()
\* returning random / JitterSteps
exponentialDelay(cfg, n) ==
    cfg.initialDelay * MathPow(cfg.backoffFactor, n) * TicksPerMs

\* jitter of 0-100% of the delay instead of 0-25%
jitterFull(cfg, n, random) ==
    cfg.initialDelay * MathPow(cfg.backoffFactor, n) * random * 4

jitter(cfg, n, random) ==
    cfg.initialDelay * MathPow(cfg.backoffFactor, n) * random

\* calculateDelay without the Retry-After branch
calculateDelayNoRetryAfter(cfg, n, error, random) ==
    MathMin(Num(exponentialDelay(cfg, n) + jitter(cfg, n, random)),
            Num(cfg.maxDelay * TicksPerMs))

calculateDelay(cfg, n, error, random) ==
    IF error.code = "RATE_LIMIT" /\ Truthy(error.retryAfter)
    THEN MathMin(NumberTimes1000(error.retryAfter[1]),
                 Num(cfg.maxDelay * TicksPerMs))
    ELSE MathMin(Num(exponentialDelay(cfg, n) + jitter(cfg, n, random)),
                 Num(cfg.maxDelay * TicksPerMs))

\* errorCode with the 403 case left out
errorCodeOnly401(status) ==
    IF status = 401 THEN "AUTHENTICATION_ERROR"
    ELSE IF status = 429 THEN "RATE_LIMIT"
    ELSE "API_ERROR"

\* the error code handleErrorResponse gives a status
errorCode(status) ==
    IF status = 401 \/ status = 403 THEN "AUTHENTICATION_ERROR"
    ELSE IF status = 429 THEN "RATE_LIMIT"
    ELSE "API_ERROR"

\* handleErrorResponse(response), errorBody being what response.json() gave
handleErrorResponse(resp, errorBody) ==
    LLMError(IF errorBody = "message" THEN "error.message" ELSE "API error: status",
             errorCode(resp.status),
             resp.status,
             IF resp.status = 429 /\ Truthy(resp.retryAfter)
             THEN resp.retryAfter ELSE <<>>)

\* chatCatch without the AbortError case
chatCatchNoAbort(error) ==
    IF error.name = "LLMError" THEN error
    ELSE LLMError("Network error", "NETWORK_ERROR", 0, <<>>)

\* the catch block of chat: what chat throws for what its try block threw
chatCatch(error) ==
    IF error.name = "LLMError" THEN error
    ELSE IF error.name = "AbortError"
    THEN LLMError("Request timeout", "TIMEOUT", 0, <<>>)
    ELSE LLMError("Network error", "NETWORK_ERROR", 0, <<>>)

----------------------------------------------------------------------------
(* JSON values and texts *)

\* a decoded JSON value; undefined is what reading a missing property gives
JValue(type, num, str, obj) ==
    [type |-> type, num |-> num, str |-> str, obj |-> obj]
NoProperties == [k \in {} |-> 0]
JUndefined == JValue("undefined", 0, "", NoProperties)
JNull == JValue("null", 0, "", NoProperties)
JNumber(n) == JValue("number", n, "", NoProperties)
JString(text) == JValue("string", 0, text, NoProperties)
JArray == JValue("array", 0, "", NoProperties)
JObject(obj) == JValue("object", 0, "", obj)

\* value.key for a value that is not null or undefined
Get(value, key) ==
    IF value.type = "object" /\ key \in DOMAIN value.obj
    THEN value.obj[key] ELSE JUndefined

\* !value
Falsy(value) ==
    \/ value.type \in {"undefined", "null"}
    \/ value.type = "number" /\ value.num = 0
    \/ value.type = "string" /\ value.str = ""

\* typeof value
typeof(value) ==
    CASE value.type \in {"null", "array", "object"} -> "object"
      [] OTHER -> value.type

\* a text is a sequence of characters; the character JsonText stands for a
\* whole JSON text without surrounding whitespace
JsonText == "{...}"
Whitespace == {" ", "\n"}

RECURSIVE trimStart(_)
trimStart(text) ==
    IF text # <<>> /\ Head(text) \in Whitespace
    THEN trimStart(Tail(text)) ELSE text

RECURSIVE trimEnd(_)
trimEnd(text) ==
    IF text # <<>> /\ text[Len(text)] \in Whitespace
    THEN trimEnd(SubSeq(text, 1, Len(text) - 1)) ELSE text

trim(text) == trimEnd(trimStart(text))

startsWith(text, prefix) ==
    Len(text) >= Len(prefix) /\ SubSeq(text, 1, Len(prefix)) = prefix

endsWith(text, suffix) ==
    /\ Len(text) >= Len(suffix)
    /\ SubSeq(text, Len(text) - Len(suffix) + 1, Len(text)) = suffix

\* the character ` is written Backtick
Backtick == "backtick"
Fence == <<Backtick, Backtick, Backtick>>
FenceJson == Fence \o <<"j", "s", "o", "n">>

\* text.replace(/^<prefix>\s*/, '')
replaceLeading(text, prefix) ==
    IF startsWith(text, prefix)
    THEN trimStart(SubSeq(text, Len(prefix) + 1, Len(text))) ELSE text

\* text.replace(/\s*```$/, '')
replaceTrailingFence(text) ==
    IF endsWith(text, Fence)
    THEN trimEnd(SubSeq(text, 1, Len(text) - Len(Fence))) ELSE text

\* the removal of the markdown code block
stripCodeBlock(content) ==
    IF startsWith(content, FenceJson)
    THEN replaceTrailingFence(replaceLeading(content, FenceJson))
    ELSE IF startsWith(content, Fence)
    THEN replaceTrailingFence(replaceLeading(content, Fence))
    ELSE content

\* JSON.parse(text), json being the value the JSON text in it encodes
JSONparse(text, json) ==
    IF trim(text) = <<JsonText>>
    THEN [ok |-> TRUE, value |-> json]
    ELSE [ok |-> FALSE, value |-> JUndefined]

----------------------------------------------------------------------------
(* The response contract parser *)

\* an LLMResponse: null, or an object whose choices is undefined (<<>> with
\* hasChoices false) or a list of choices; a choice is null, has no message,
\* or has a message whose content is a text (json: what its JSON text encodes)
Choice(kind, text, json) == [kind |-> kind, text |-> text, json |-> json]
LLMResponse(choices) ==
    [isNull |-> FALSE, hasChoices |-> TRUE, choices |-> choices]
NullResponse == [isNull |-> TRUE, hasChoices |-> FALSE, choices |-> <<>>]
NoChoicesResponse == [isNull |-> FALSE, hasChoices |-> FALSE, choices |-> <<>>]

NoExtraction ==
    [data |-> JUndefined, confidence |-> JUndefined,
     confidenceByField |-> JUndefined]

\* what a call of parseExtractionResponse gives: thrown is NoError and value
\* the ExtractionResponse if it returns; else thrown is the error, with
\* content its details.content
Returned(value) == [thrown |-> NoError, content |-> <<>>, value |-> value]
Thrown(error, content) ==
    [thrown |-> error, content |-> content, value |-> NoExtraction]
InvalidResponse(message, content) ==
    Thrown(LLMError(message, "INVALID_RESPONSE", 0, <<>>), content)

\* the try block of parseExtractionResponse, after JSON.parse succeeded: the
\* message of the Error it throws, "" if it returns
checkParsed(parsed) ==
    IF parsed.type = "null"
    THEN "Cannot read properties of null"
    ELSE IF Falsy(Get(parsed, "data")) \/ typeof(Get(parsed, "data")) # "object"
    THEN "Response missing data object"
    ELSE IF typeof(Get(parsed, "confidence")) # "number"
    THEN "Response missing confidence score"
    ELSE IF \/ Falsy(Get(parsed, "confidenceByField"))
            \/ typeof(Get(parsed, "confidenceByField")) # "object"
    THEN "Response missing confidenceByField object"
    ELSE ""

\* the message of the LLMError the catch block of parseExtractionResponse
\* throws for an Error with the message reason
FailedToParse(reason) == "Failed to parse LLM response: " \o reason

\* a parser that clamps the overall confidence into [0,100]
Clamp(value) ==
    IF value.type # "number" THEN value
    ELSE IF value.num > 100 THEN JNumber(100)
    ELSE IF value.num < 0 THEN JNumber(0)
    ELSE value

parseContentClamping(text, json) ==
    LET content == stripCodeBlock(trim(text))
        decoded == JSONparse(content, json)
    IN  IF ~decoded.ok
        THEN InvalidResponse(FailedToParse("Unexpected token"), content)
        ELSE IF checkParsed(decoded.value) # ""
        THEN InvalidResponse(FailedToParse(checkParsed(decoded.value)), content)
        ELSE Returned([data |-> Get(decoded.value, "data"),
                       confidence |-> Clamp(Get(decoded.value, "confidence")),
                       confidenceByField |->
                           Get(decoded.value, "confidenceByField")])

\* parseExtractionResponse from the trimmed content on
parseContent(text, json) ==
    LET content == stripCodeBlock(trim(text))
        decoded == JSONparse(content, json)
    IN  IF ~decoded.ok
        THEN InvalidResponse(FailedToParse("Unexpected token"), content)
        ELSE IF checkParsed(decoded.value) # ""
        THEN InvalidResponse(FailedToParse(checkParsed(decoded.value)), content)
        ELSE Returned([data |-> Get(decoded.value, "data"),
                       confidence |-> Get(decoded.value, "confidence"),
                       confidenceByField |->
                           Get(decoded.value, "confidenceByField")])

\* a parser that reads the last choice of the response
parseExtractionResponseLastChoice(resp) ==
    IF resp.isNull
    THEN Thrown(PlainError("TypeError"), <<>>)
    ELSE IF ~resp.hasChoices \/ Len(resp.choices) = 0
    THEN InvalidResponse("No choices in LLM response", <<>>)
    ELSE LET last == resp.choices[Len(resp.choices)]
         IN  IF last.kind = "null"
             THEN Thrown(PlainError("TypeError"), <<>>)
             ELSE IF last.kind = "nomessage" \/ last.text = <<>>
             THEN InvalidResponse("No content in LLM response", <<>>)
             ELSE parseContent(last.text, last.json)

\* parseExtractionResponse(response)
parseExtractionResponse(resp) ==
    IF resp.isNull
    THEN Thrown(PlainError("TypeError"), <<>>)
    ELSE IF ~resp.hasChoices \/ Len(resp.choices) = 0
    THEN InvalidResponse("No choices in LLM response", <<>>)
    ELSE IF resp.choices[1].kind = "null"
    THEN Thrown(PlainError("TypeError"), <<>>)
    ELSE IF resp.choices[1].kind = "nomessage" \/ resp.choices[1].text = <<>>
    THEN InvalidResponse("No content in LLM response", <<>>)
    ELSE parseContent(resp.choices[1].text, resp.choices[1].json)

----------------------------------------------------------------------------
(* The answers of the model that are explored *)

FieldNames == {"name", "amount"}

\* the schemas: their field names
Schemas == {{"name"}, {"name", "amount"}}

\* the objects that give some of the field names a value of valuesOf
ObjectsOver(valuesOf) ==
    UNION {{o \in [K -> UNION {valuesOf[k] : k \in K}] :
                \A k \in K : o[k] \in valuesOf[k]} : K \in SUBSET FieldNames}

DataObjects ==
    ObjectsOver([name |-> {JString("John"), JNull},
                 amount |-> {JNumber(150), JString("42")}])

ConfidenceObjects ==
    ObjectsOver([name |-> {JNumber(95), JNumber(150)},
                 amount |-> {JNumber(0), JNumber(0 - 1)}])

DataValues ==
    {JUndefined, JNull, JString(""), JString("x"), JNumber(0), JArray}
    \cup {JObject(o) : o \in DataObjects}

ConfidenceValues ==
    {JUndefined, JNull, JString("95"), JNumber(0 - 5), JNumber(0), JNumber(80),
     JNumber(100), JNumber(150)}

ConfidenceByFieldValues ==
    {JUndefined, JNull, JArray, JNumber(1)}
    \cup {JObject(o) : o \in ConfidenceObjects}

\* the JSON object {data, confidence, confidenceByField}, a key being left
\* out where the value is undefined
ContractObject(data, confidence, confidenceByField) ==
    LET all == [data |-> data, confidence |-> confidence,
                confidenceByField |-> confidenceByField]
    IN  JObject([k \in {key \in DOMAIN all : all[key] # JUndefined} |-> all[k]])

\* what the JSON text of an answer can encode
Payloads ==
    {JNull, JArray, JNumber(5)}
    \cup {ContractObject(d, c, f) : d \in DataValues, c \in ConfidenceValues,
                                   f \in ConfidenceByFieldValues}

\* the answer of the end-to-end example
ValidPayload ==
    ContractObject(JObject([name |-> JString("John")]), JNumber(95),
                   JObject([name |-> JNumber(95)]))

NotJsonText == <<"o", "o", "p", "s">>

\* the language tags of a code fence: none, json, js, JSON, jsonc
FenceTags ==
    {<<>>, <<"j", "s", "o", "n">>, <<"j", "s">>, <<"J", "S", "O", "N">>,
     <<"j", "s", "o", "n", "c">>}

Wrapping(before, after) == [before |-> before, after |-> after]
Wrap(w, inner) == w.before \o inner \o w.after

\* a code fence around the text, with a language tag or none, on lines of
\* its own or not, with or without whitespace around the whole
FencedWrappings ==
    {Wrapping(Fence \o tag \o <<"\n">>, <<"\n">> \o Fence) : tag \in FenceTags}
    \cup {Wrapping(<<" ">> \o Fence \o tag \o <<"\n">>,
                   <<"\n">> \o Fence \o <<" ", "\n">>) : tag \in FenceTags}
    \cup {Wrapping(Fence, Fence), Wrapping(FenceJson, Fence)}

\* no fence, whitespace around the text or not; and a fence never closed
Wrappings ==
    FencedWrappings
    \cup {Wrapping(<<>>, <<>>), Wrapping(<<" ">>, <<"\n">>),
          Wrapping(FenceJson \o <<"\n">>, <<>>)}

\* the LLMResponse values handed to the parser
LLMResponses ==
    {NullResponse, NoChoicesResponse, LLMResponse(<<>>),
     LLMResponse(<<Choice("null", <<>>, JUndefined)>>),
     LLMResponse(<<Choice("nomessage", <<>>, JUndefined)>>),
     LLMResponse(<<Choice("message", <<>>, JUndefined)>>),
     LLMResponse(<<Choice("message", <<" ">>, JUndefined)>>)}
    \cup {LLMResponse(<<Choice("message", Wrap(w, <<JsonText>>), json)>>) :
             w \in Wrappings, json \in Payloads}
    \cup {LLMResponse(<<Choice("message", Wrap(w, NotJsonText), JUndefined)>>) :
             w \in Wrappings}

\* an LLMResponse with its other members: id, model, usage, and the role
\* and finish_reason of its first choice
LLMResponseWith(choices, rest) ==
    [isNull |-> FALSE, hasChoices |-> TRUE, choices |-> choices, rest |-> rest]

\* responses with the same first content as one of LLMResponses, and other
\* members and further choices besides
VariedResponses ==
    LET first ==
          {Choice("message", <<JsonText>>, ValidPayload),
           Choice("message", Wrap(Wrapping(FenceJson \o <<"\n">>,
                                           <<"\n">> \o Fence), <<JsonText>>),
                  ValidPayload),
           Choice("message", <<JsonText>>, JNull),
           Choice("message", NotJsonText, JUndefined),
           Choice("message", <<>>, JUndefined)}
        further ==
          {<<>>,
           <<Choice("message", <<JsonText>>,
                    ContractObject(JObject([name |-> JString("Jane")]),
                                   JNumber(10),
                                   JObject([name |-> JNumber(10)])))>>,
           <<Choice("null", <<>>, JUndefined)>>}
        rest ==
          {[id |-> "chatcmpl-1", model |-> "llama3.2:3b", usage |-> <<>>,
            role |-> "assistant", finish_reason |-> "stop"],
           [id |-> "chatcmpl-2", model |-> "gpt-4o", usage |-> <<42>>,
            role |-> "user", finish_reason |-> "length"]}
    IN  {LLMResponseWith(<<c>> \o f, r) : c \in first, f \in further,
                                         r \in rest}

\* the LLMResponse that response.json() resolves with, for each of JsonBodies
ResponseOfBody(body) ==
    CASE body = "null"       -> NullResponse
      [] body = "nochoices"  -> NoChoicesResponse
      [] body = "nocontent"  ->
            LLMResponse(<<Choice("nomessage", <<>>, JUndefined)>>)
      [] body = "badcontent" ->
            LLMResponse(<<Choice("message", NotJsonText, JUndefined)>>)
      [] OTHER               ->
            LLMResponse(<<Choice("message", <<JsonText>>, ValidPayload)>>)

----------------------------------------------------------------------------
(* The prompt builder *)

\* a field definition of a schema object; an attribute is <<>> when the
\* definition does not set it, <<v>> when it sets it to v
FieldDef(type, optional, description, enum, min, max, pattern) ==
    [type |-> type, optional |-> optional, description |-> description,
     enum |-> enum, min |-> min, max |-> max, pattern |-> pattern]

\* a schema object: declared lists its fields <<name, definition>> in the
\* order in which the object was written; confidence is <<>> or <<policy>>
SchemaObject(declared, metadata, confidence) ==
    [declared |-> declared, metadata |-> metadata, confidence |-> confidence]

\* property names that are array indices, with their values
IndexKeys == [k \in {"2", "10"} |-> IF k = "2" THEN 2 ELSE 10]

\* Object.entries(fields): the index keys in ascending numeric order, then
\* the other keys in the order of their insertion
RECURSIVE IndexEntries(_, _)
IndexEntries(declared, above) ==
    LET rest == {i \in 1 .. Len(declared) :
                    /\ declared[i][1] \in DOMAIN IndexKeys
                    /\ IndexKeys[declared[i][1]] > above}
    IN  IF rest = {} THEN <<>>
        ELSE LET least == CHOOSE i \in rest : \A j \in rest :
                              IndexKeys[declared[i][1]] <= IndexKeys[declared[j][1]]
             IN  <<declared[least]>>
                 \o IndexEntries(declared, IndexKeys[declared[least][1]])

ObjectEntries(declared) ==
    IndexEntries(declared, 0)
    \o SelectSeq(declared, LAMBDA e : e[1] \notin DOMAIN IndexKeys)

\* list.join(separator)
RECURSIVE join(_, _)
join(list, separator) ==
    IF list = <<>> THEN ""
    ELSE IF Len(list) = 1 THEN list[1]
    ELSE list[1] \o separator \o join(Tail(list), separator)

\* the texts that open the confidence block and the response format, and
\* those that close an entry of the response format
ConfidenceHead == "\n\nCONFIDENCE REQUIREMENTS:\n- Minimum confidence threshold: "
FormatHead == "\n\nRESPONSE FORMAT:\n{\n  \"data\": {\n    "
DataEntry == "\": <extracted_value_or_null>"
ConfidenceEntry == "\": <confidence_0_to_100_or_0_if_not_found>"

\* a field line that shows every description and pattern that is not
\* undefined, the empty ones too
fieldLineOfDefined(name, def) ==
    <<"\n- ", name, ": ", def.type>>
    \o (IF def.optional = <<TRUE>> THEN <<" (optional)">> ELSE <<>>)
    \o (IF def.description # <<>>
        THEN <<" - ", def.description[1]>> ELSE <<>>)
    \o (IF def.enum # <<>>
        THEN <<" - allowed values: ", join(def.enum[1], ", ")>> ELSE <<>>)
    \o (IF def.min # <<>> \/ def.max # <<>>
        THEN <<" - range: ",
               IF def.min # <<>> THEN ToString(def.min[1]) ELSE "-inf",
               " to ",
               IF def.max # <<>> THEN ToString(def.max[1]) ELSE "inf">>
        ELSE <<>>)
    \o (IF def.pattern # <<>>
        THEN <<" - pattern: ", def.pattern[1]>> ELSE <<>>)

\* the text one field adds to the prompt, as the pieces appended in turn;
\* "-inf" and "inf" stand for the two infinity signs of the source
fieldLine(name, def) ==
    <<"\n- ", name, ": ", def.type>>
    \o (IF def.optional = <<TRUE>> THEN <<" (optional)">> ELSE <<>>)
    \o (IF Truthy(def.description)
        THEN <<" - ", def.description[1]>> ELSE <<>>)
    \o (IF def.enum # <<>>
        THEN <<" - allowed values: ", join(def.enum[1], ", ")>> ELSE <<>>)
    \o (IF def.min # <<>> \/ def.max # <<>>
        THEN <<" - range: ",
               IF def.min # <<>> THEN ToString(def.min[1]) ELSE "-inf",
               " to ",
               IF def.max # <<>> THEN ToString(def.max[1]) ELSE "inf">>
        ELSE <<>>)
    \o (IF Truthy(def.pattern)
        THEN <<" - pattern: ", def.pattern[1]>> ELSE <<>>)

RECURSIVE fieldLines(_)
fieldLines(entries) ==
    IF entries = <<>> THEN <<>>
    ELSE fieldLine(entries[1][1], entries[1][2]) \o fieldLines(Tail(entries))

\* Object.keys(fields).map(name => `"${name}": ...`).join(',\n    ')
RECURSIVE formatEntries(_, _)
formatEntries(entries, entry) ==
    IF entries = <<>> THEN <<>>
    ELSE <<"\"", entries[1][1], entry>>
         \o (IF Len(entries) > 1 THEN <<",\n    ">> ELSE <<>>)
         \o formatEntries(Tail(entries), entry)

\* buildSystemPrompt(schema): the pieces of the prompt in order, the fixed
\* texts given by their first words
buildSystemPrompt(schema) ==
    <<"You are a data extraction assistant. [...] SCHEMA:\n">>
    \o fieldLines(ObjectEntries(schema.declared))
    \o (IF schema.confidence # <<>>
        THEN <<ConfidenceHead, ToString(schema.confidence[1].threshold),
               "%\n- Provide per-field confidence scores in your response\n">>
        ELSE <<>>)
    \o <<FormatHead>>
    \o formatEntries(ObjectEntries(schema.declared), DataEntry)
    \o <<"\n  },\n  \"confidence\": <overall_confidence_0_to_100>,\n  \"confidenceByField\": {\n    ">>
    \o formatEntries(ObjectEntries(schema.declared), ConfidenceEntry)
    \o <<"\n  }\n}\n\nIMPORTANT: Include ALL fields [...]">>

\* a builder that numbers its answers by the calls made before
buildUserPromptCounting(input) ==
    <<"Extract data from the following text:\n\n", input,
      ToString(prompts.calls)>>

\* buildUserPrompt(input)
buildUserPrompt(input) == <<"Extract data from the following text:\n\n", input>>

\* the schemas given to the builder: one or two fields with distinct names,
\* some of them array indices, with every attribute set and unset, with and
\* without metadata and a confidence policy
PromptSchemas ==
    LET defs ==
          {FieldDef("string", <<>>, <<>>, <<>>, <<>>, <<>>, <<>>),
           FieldDef("string", <<TRUE>>, <<"The name">>, <<>>, <<>>, <<>>, <<>>),
           FieldDef("string", <<FALSE>>, <<"">>, <<>>, <<>>, <<>>, <<>>),
           FieldDef("string", <<>>, <<>>, <<<<"USD", "EUR">>>>, <<>>, <<>>, <<>>),
           FieldDef("number", <<>>, <<>>, <<>>, <<0>>, <<>>, <<>>),
           FieldDef("number", <<>>, <<>>, <<>>, <<0>>, <<100>>, <<>>),
           FieldDef("number", <<TRUE>>, <<"Total">>, <<>>, <<>>, <<100>>, <<>>),
           FieldDef("string", <<>>, <<>>, <<>>, <<>>, <<>>, <<"^a$">>),
           FieldDef("string", <<>>, <<>>, <<>>, <<>>, <<>>, <<"">>)}
        fields == {<<name, def>> : name \in {"name", "2", "10"}, def \in defs}
        declared == {<<f>> : f \in fields}
                    \cup {p \in fields \X fields : p[1][1] # p[2][1]}
    IN  {SchemaObject(d, m, c) :
            d \in declared,
            m \in {<<>>, <<[name |-> "Invoice", version |-> "1.0.0"]>>},
            c \in {<<>>, <<[threshold |-> 80, failOnLowConfidence |-> TRUE]>>}}

\* no call of the prompt builder is followed
NoPrompts ==
    prompts = [schema |-> SchemaObject(<<>>, <<>>, <<>>), input |-> "",
               calls |-> 0, system |-> <<>>, user |-> <<>>]

----------------------------------------------------------------------------
(* The request of extract *)

\* a config object given to the constructor; an optional property is <<>>
\* when the object does not have it and <<value>> when it has it, the value
\* being <<>> for undefined
LLMConfig(baseURL, model, apiKey, temperature, maxTokens) ==
    [baseURL |-> baseURL, model |-> model, apiKey |-> apiKey,
     temperature |-> temperature, maxTokens |-> maxTokens]

\* {temperature: 0.0, maxTokens: 2000, ...config}: a property of the given
\* object, undefined or not, replaces the default
newConfig(given) ==
    [baseURL |-> given.baseURL,
     model |-> given.model,
     apiKey |-> IF given.apiKey = <<>> THEN <<>> ELSE given.apiKey[1],
     temperature |-> IF given.temperature = <<>> THEN <<DefaultTemperature>>
                     ELSE given.temperature[1],
     maxTokens |-> IF given.maxTokens = <<>> THEN <<DefaultMaxTokens>>
                   ELSE given.maxTokens[1]]

\* the request extract builds: systemPrompt || buildSystemPrompt(schema),
\* then buildUserPrompt(input)
LLMRequest(cfg, opts) ==
    [model |-> cfg.model,
     messages |-> <<[role |-> "system",
                     content |-> IF Truthy(opts.systemPrompt)
                                 THEN opts.systemPrompt
                                 ELSE <<buildSystemPrompt(opts.schema)>>],
                    [role |-> "user",
                     content |-> <<buildUserPrompt(opts.input)>>]>>,
     temperature |-> cfg.temperature,
     max_tokens |-> cfg.maxTokens]

\* JSON.stringify(request), as the members of the JSON object written: a
\* property whose value is undefined is left out
JSONstringify(llmRequest) ==
    LET keys == {"model", "messages"}
                \cup (IF llmRequest.temperature # <<>>
                      THEN {"temperature"} ELSE {})
                \cup (IF llmRequest.max_tokens # <<>>
                      THEN {"max_tokens"} ELSE {})
    IN  [k \in keys |->
            CASE k = "model"       -> llmRequest.model
              [] k = "messages"    -> llmRequest.messages
              [] k = "temperature" -> llmRequest.temperature[1]
              [] OTHER             -> llmRequest.max_tokens[1]]

\* a second argument of fetch that always carries an Authorization header
fetchInitAlwaysAuthorized(cfg, llmRequest) ==
    [method |-> "POST",
     headers |-> [h \in {"Content-Type", "Authorization"} |->
                     IF h = "Content-Type" THEN "application/json"
                     ELSE "Bearer "
                          \o (IF cfg.apiKey = <<>> THEN "undefined"
                              ELSE cfg.apiKey[1])],
     body |-> JSONstringify(llmRequest)]

\* the second argument of fetch: the Authorization header is spread in when
\* config.apiKey is truthy
fetchInit(cfg, llmRequest) ==
    [method |-> "POST",
     headers |-> [h \in {"Content-Type"}
                        \cup (IF Truthy(cfg.apiKey)
                              THEN {"Authorization"} ELSE {}) |->
                     IF h = "Content-Type" THEN "application/json"
                     ELSE "Bearer " \o cfg.apiKey[1]],
     body |-> JSONstringify(llmRequest)]

\* the options of a call of extract
ExtractionOptions(schema, input, systemPrompt) ==
    [schema |-> schema, input |-> input, systemPrompt |-> systemPrompt]

PersonSchema ==
    SchemaObject(<<<<"name", FieldDef("string", <<>>, <<>>, <<>>, <<>>, <<>>,
                                      <<>>)>>>>, <<>>, <<>>)

\* no request built yet
NoRequest ==
    [model |-> "", messages |-> <<>>, temperature |-> <<>>,
     max_tokens |-> <<>>]

\* a client constructed with {baseURL, model} only, called with a schema
\* and an input text
RequestIdle ==
    /\ config = newConfig(LLMConfig("http://localhost:11434/v1", "llama3.2:3b",
                                    <<>>, <<>>, <<>>))
    /\ options = ExtractionOptions(PersonSchema, "My name is John", <<>>)
    /\ request = NoRequest
    /\ sent = <<>>

----------------------------------------------------------------------------
(* The schema loader *)

\* new SchemaValidationError(message, code, undefined, details); details is
\* <<>> when none are given
SchemaValidationError(message, code, details) ==
    [name |-> "SchemaValidationError", message |-> message, code |-> code,
     details |-> details]
NoSchemaError == [name |-> "none", message |-> "", code |-> "", details |-> <<>>]

\* a field definition of a raw schema: each attribute <<>> when left out
RawField(type, enum, min, max, pattern) ==
    [type |-> type, enum |-> enum, min |-> min, max |-> max,
     pattern |-> pattern]

\* a raw schema object: fields is <<>> when the object has none, else
\* <<declared>>, the list of its <<name, definition>>; metadata is <<>> or
\* <<value>>, a JSON value
RawSchema(fields, metadata) == [fields |-> fields, metadata |-> metadata]

\* sources that new RegExp rejects
InvalidPatterns == {"[a-z", "("}

\* a validator that does not compare min and max
validateSchemaNoRange(raw) ==
    LET broken(def) ==
            \/ def.type = <<>>
            \/ def.enum = <<<<>>>>
            \/ def.pattern # <<>> /\ def.pattern[1] \in InvalidPatterns
        malformed(metadata) ==
            \/ metadata.type # "object"
            \/ \E k \in DOMAIN metadata.obj : metadata.obj[k].type # "string"
    IN  IF raw.fields = <<>> \/ raw.fields = <<<<>>>>
        THEN SchemaValidationError("Schema must have fields", "INVALID_SCHEMA",
                                   <<>>)
        ELSE IF \E i \in DOMAIN raw.fields[1] : broken(raw.fields[1][i][2])
        THEN SchemaValidationError("Invalid field definition",
                                   "INVALID_SCHEMA", <<>>)
        ELSE IF raw.metadata # <<>> /\ malformed(raw.metadata[1])
        THEN SchemaValidationError("Invalid metadata", "INVALID_SCHEMA", <<>>)
        ELSE NoSchemaError

\* validateSchema(raw): the error it throws, or NoSchemaError when it
\* returns. The rules are those of the Schema Validator: fields missing or
\* empty, a field without type, an empty enum, min > max, a pattern that is
\* no regular expression, metadata that is not an object of strings. The
\* messages and the code INVALID_SCHEMA stand for those of the validator.
validateSchema(raw) ==
    LET broken(def) ==
            \/ def.type = <<>>
            \/ def.enum = <<<<>>>>
            \/ def.min # <<>> /\ def.max # <<>> /\ def.min[1] > def.max[1]
            \/ def.pattern # <<>> /\ def.pattern[1] \in InvalidPatterns
        malformed(metadata) ==
            \/ metadata.type # "object"
            \/ \E k \in DOMAIN metadata.obj : metadata.obj[k].type # "string"
    IN  IF raw.fields = <<>> \/ raw.fields = <<<<>>>>
        THEN SchemaValidationError("Schema must have fields", "INVALID_SCHEMA",
                                   <<>>)
        ELSE IF \E i \in DOMAIN raw.fields[1] : broken(raw.fields[1][i][2])
        THEN SchemaValidationError("Invalid field definition",
                                   "INVALID_SCHEMA", <<>>)
        ELSE IF raw.metadata # <<>> /\ malformed(raw.metadata[1])
        THEN SchemaValidationError("Invalid metadata", "INVALID_SCHEMA", <<>>)
        ELSE NoSchemaError

\* what a path of the file system holds: the outcome of fs.access(R_OK), the
\* outcome of fs.readFile, the text read and the value its JSON encodes
File(access, read, text, json) ==
    [access |-> access, read |-> read, text |-> text, json |-> json]

\* the message of the system error with this code
ErrnoMessage(errno) ==
    CASE errno = "ENOENT" -> "ENOENT: no such file or directory"
      [] errno = "EACCES" -> "EACCES: permission denied"
      [] OTHER            -> "EISDIR: illegal operation on a directory, read"

\* the message of the SyntaxError of JSON.parse
SyntaxErrorMessage == "Unexpected token i in JSON at position 2"

\* the raw schemas given to the loaders
RawSchemas ==
    LET defs ==
          {RawField(<<"string">>, <<>>, <<>>, <<>>, <<>>),
           RawField(<<>>, <<>>, <<>>, <<>>, <<>>),
           RawField(<<"string">>, <<<<"USD", "EUR">>>>, <<>>, <<>>, <<>>),
           RawField(<<"string">>, <<<<>>>>, <<>>, <<>>, <<>>),
           RawField(<<"number">>, <<>>, <<0>>, <<100>>, <<>>),
           RawField(<<"number">>, <<>>, <<50>>, <<50>>, <<>>),
           RawField(<<"number">>, <<>>, <<100>>, <<50>>, <<>>),
           RawField(<<"string">>, <<>>, <<>>, <<>>, <<"^[a-z]+$">>),
           RawField(<<"string">>, <<>>, <<>>, <<>>, <<"[a-z">>)}
        fields ==
          {<<>>, <<<<>>>>}
          \cup {<<<<<<"name", d>>>>>> : d \in defs}
          \cup {<<<<<<"name", d>>, <<"amount", e>>>>>> : d \in defs, e \in defs}
        metadata ==
          {<<>>,
           <<JObject([name |-> JString("Invoice"), version |-> JString("1.0.0")])>>,
           <<JObject([name |-> JNumber(7)])>>,
           <<JString("Invoice")>>}
    IN  {RawSchema(f, m) : f \in fields, m \in metadata}

\* what the path given to loadSchema can hold: nothing, a file without read
\* permission, a directory, a file removed after the access check, a file
\* that is no JSON, a file with the JSON of a raw schema
Files ==
    {File("ENOENT", "ENOENT", <<>>, RawSchema(<<>>, <<>>)),
     File("EACCES", "EACCES", <<>>, RawSchema(<<>>, <<>>)),
     File("ok", "EISDIR", <<>>, RawSchema(<<>>, <<>>)),
     File("ok", "ENOENT", <<>>, RawSchema(<<>>, <<>>)),
     File("ok", "ok", NotJsonText, RawSchema(<<>>, <<>>))}
    \cup {File("ok", "ok", <<JsonText>>, raw) : raw \in RawSchemas}

FilePaths == {"invoice.schema.json", "/tmp/schemas/person.json"}

\* no loader called
LoaderIdle ==
    [pc |-> "idle", fn |-> "none", filePath |-> "",
     file |-> File("ENOENT", "ENOENT", <<>>, RawSchema(<<>>, <<>>)),
     steps |-> <<>>, returned |-> <<>>, error |-> NoSchemaError,
     again |-> <<>>]

\* the command not run
\* CliArgs, the object parseArgs fills: each property <<>> while not set
CliArgs(command, schema, input, base, model, debug) ==
    [command |-> command, schema |-> schema, input |-> input, base |-> base,
     model |-> model, debug |-> debug]

NoCliArgs == CliArgs(<<>>, <<>>, <<>>, <<>>, <<>>, <<>>)

\* the command not run. argv is process.argv from index 2 on; stdout and
\* stderr hold what is written besides the [DEBUG] lines, which debugLog
\* holds; outcome is what await extract(...) settled with
CliIdle ==
    [pc |-> "idle", argv |-> <<>>, args |-> NoCliArgs, llmConfig |-> <<>>,
     outcome |-> <<>>, extractCalls |-> 0, requests |-> 0, exitCode |-> <<>>,
     stdout |-> <<>>, stderr |-> <<>>, debugLog |-> <<>>]

CommandIdle == loader = LoaderIdle /\ cli = CliIdle

\* a loader returns schema, or throws error
loaderReturn(state, schema) ==
    [state EXCEPT !.pc = "returned", !.returned = <<schema>>]
loaderThrow(state, error) == [state EXCEPT !.pc = "thrown", !.error = error]

\* a loader that returns a copy of the schema without its metadata
validateAndReturnFieldsOnly(state, schema) ==
    LET validated == [state EXCEPT !.steps = Append(@, "validateSchema")]
    IN  IF validateSchema(schema) = NoSchemaError
        THEN loaderReturn(validated, [schema EXCEPT !.metadata = <<>>])
        ELSE loaderThrow(validated, validateSchema(schema))

\* validateSchema(schema); return schema
validateAndReturn(state, schema) ==
    LET validated == [state EXCEPT !.steps = Append(@, "validateSchema")]
    IN  IF validateSchema(schema) = NoSchemaError
        THEN loaderReturn(validated, schema)
        ELSE loaderThrow(validated, validateSchema(schema))

\* loadSchema(filePath) up to its await of fs.access
loadSchema(filePath, file) ==
    [LoaderIdle EXCEPT !.pc = "access", !.fn = "loadSchema",
                       !.filePath = filePath, !.file = file,
                       !.steps = <<"access">>]

\* a loadSchema without the access check
accessSettledUnchecked(state) ==
    [state EXCEPT !.pc = "readFile", !.steps = Append(@, "readFile")]

\* fs.access settled: loadSchema throws, or goes on to its await of
\* fs.readFile
accessSettled(state) ==
    IF state.file.access # "ok"
    THEN loaderThrow(state,
            SchemaValidationError(
                "Cannot read schema file: " \o state.filePath, "INVALID_JSON",
                <<[filePath |-> state.filePath,
                   error |-> ErrnoMessage(state.file.access)]>>))
    ELSE [state EXCEPT !.pc = "readFile", !.steps = Append(@, "readFile")]

\* fs.readFile settled: loadSchema throws, or parses the content, validates
\* the value and returns it
readFileSettled(state) ==
    IF state.file.read # "ok"
    THEN loaderThrow(state,
            SchemaValidationError(
                "Failed to read schema file: "
                    \o ErrnoMessage(state.file.read), "INVALID_JSON",
                <<[filePath |-> state.filePath]>>))
    ELSE LET parsed == JSONparse(state.file.text, state.file.json)
             parsing == [state EXCEPT !.steps = Append(@, "JSON.parse")]
         IN  IF ~parsed.ok
             THEN loaderThrow(parsing,
                     SchemaValidationError(
                         "Invalid JSON in schema file: " \o SyntaxErrorMessage,
                         "INVALID_JSON", <<[filePath |-> state.filePath]>>))
             ELSE validateAndReturn(parsing, parsed.value)

\* parseSchema(jsonString), the string being the text of file
parseSchema(file) ==
    LET parsed == JSONparse(file.text, file.json)
        parsing == [LoaderIdle EXCEPT !.fn = "parseSchema", !.file = file,
                                      !.steps = <<"JSON.parse">>]
    IN  IF ~parsed.ok
        THEN loaderThrow(parsing,
                SchemaValidationError("Invalid JSON: " \o SyntaxErrorMessage,
                                      "INVALID_JSON", <<>>))
        ELSE validateAndReturn(parsing, parsed.value)

\* loadSchemaFromObject(obj), obj being the value of file
loadSchemaFromObject(file) ==
    validateAndReturn(
        [LoaderIdle EXCEPT !.fn = "loadSchemaFromObject", !.file = file],
        file.json)

----------------------------------------------------------------------------
(* The extract command of the command line *)

HelpText == "Ordis CLI - Schema-first LLM extraction tool [...]"
VersionText == "ordis-cli v<packageJson.version>"
UsageText ==
    "Usage: ordis extract --schema <path> --input <path> --base <url> --model <name>"

\* args[i] of parseArgs: <<>> (undefined) past the end of the array
argAt(args, i) == IF i \in DOMAIN args THEN <<args[i]>> ELSE <<>>

\* console.log of a [DEBUG] line when args.debug is set
debug(state, line) ==
    IF state.args.debug = <<TRUE>>
    THEN [state EXCEPT !.debugLog = Append(@, line)]
    ELSE state

RECURSIVE parseArgsFrom(_, _, _)

\* a loop that knows --help, -h, --version and -v as the first argument only
parseArgsFromHelpFirstOnly(args, i, parsed) ==
    IF i > Len(args) THEN [exit |-> <<>>, parsed |-> parsed]
    ELSE LET arg  == args[i]
             next == argAt(args, i + 1)
         IN  IF i = 1 /\ arg \in {"--help", "-h"}
             THEN [exit |-> <<"help">>, parsed |-> parsed]
             ELSE IF i = 1 /\ arg \in {"--version", "-v"}
             THEN [exit |-> <<"version">>, parsed |-> parsed]
             ELSE IF arg = "--debug"
             THEN parseArgsFrom(args, i + 1,
                                [parsed EXCEPT !.debug = <<TRUE>>])
             ELSE IF arg = "--schema" /\ Truthy(next)
             THEN parseArgsFrom(args, i + 2, [parsed EXCEPT !.schema = next])
             ELSE IF arg = "--input" /\ Truthy(next)
             THEN parseArgsFrom(args, i + 2, [parsed EXCEPT !.input = next])
             ELSE IF arg = "--base" /\ Truthy(next)
             THEN parseArgsFrom(args, i + 2, [parsed EXCEPT !.base = next])
             ELSE IF arg = "--model" /\ Truthy(next)
             THEN parseArgsFrom(args, i + 2, [parsed EXCEPT !.model = next])
             ELSE IF ~startsWith(arg, "--")
             THEN parseArgsFrom(args, i + 1,
                                [parsed EXCEPT !.command = <<arg>>])
             ELSE parseArgsFrom(args, i + 1, parsed)

\* the loop of parseArgs from args[i] on (i = 1 is process.argv[2]): exit is
\* <<"help">> or <<"version">> when the loop ends the process, else <<>>
\* and parsed is what parseArgs returns
parseArgsFrom(args, i, parsed) ==
    IF i > Len(args) THEN [exit |-> <<>>, parsed |-> parsed]
    ELSE LET arg  == args[i]
             next == argAt(args, i + 1)
         IN  IF arg \in {"--help", "-h"}
             THEN [exit |-> <<"help">>, parsed |-> parsed]
             ELSE IF arg \in {"--version", "-v"}
             THEN [exit |-> <<"version">>, parsed |-> parsed]
             ELSE IF arg = "--debug"
             THEN parseArgsFrom(args, i + 1,
                                [parsed EXCEPT !.debug = <<TRUE>>])
             ELSE IF arg = "--schema" /\ Truthy(next)
             THEN parseArgsFrom(args, i + 2, [parsed EXCEPT !.schema = next])
             ELSE IF arg = "--input" /\ Truthy(next)
             THEN parseArgsFrom(args, i + 2, [parsed EXCEPT !.input = next])
             ELSE IF arg = "--base" /\ Truthy(next)
             THEN parseArgsFrom(args, i + 2, [parsed EXCEPT !.base = next])
             ELSE IF arg = "--model" /\ Truthy(next)
             THEN parseArgsFrom(args, i + 2, [parsed EXCEPT !.model = next])
             ELSE IF ~startsWith(arg, "--")
             THEN parseArgsFrom(args, i + 1,
                                [parsed EXCEPT !.command = <<arg>>])
             ELSE parseArgsFrom(args, i + 1, parsed)

parseArgs(args) == parseArgsFrom(args, 1, NoCliArgs)

\* console.error(line), ...; process.exit(1)
exitWithLines(state, lines) ==
    [state EXCEPT !.pc = "exited", !.exitCode = <<1>>, !.stderr = lines]

\* path.resolve(name) in the working directory /work
pathResolve(name) ==
    IF startsWith(name, "/") THEN name ELSE "/work/" \o name

\* the catch block of runExtraction: console.error(JSON.stringify(
\* errorOutput)); process.exit(1)
exitWithError(state, message, code) ==
    [debug(state, "[DEBUG] Stack trace:")
        EXCEPT !.pc = "exited", !.exitCode = <<1>>,
                  !.stderr = <<[success |-> FALSE,
                                errors |-> <<[message |-> message,
                                              code |-> code]>>]>>]

\* a check of the required arguments that starts with --model
missingArgumentModelFirst(args) ==
    CASE ~Truthy(args.model)  -> "--model"
      [] ~Truthy(args.schema) -> "--schema"
      [] ~Truthy(args.input)  -> "--input"
      [] ~Truthy(args.base)   -> "--base"
      [] OTHER                -> ""

\* the first of the required arguments that is missing, or "" if none is
missingArgument(args) ==
    CASE ~Truthy(args.schema) -> "--schema"
      [] ~Truthy(args.input)  -> "--input"
      [] ~Truthy(args.base)   -> "--base"
      [] ~Truthy(args.model)  -> "--model"
      [] OTHER                -> ""

\* a command that goes on to read the input after a schema error
afterLoadSchemaLenient(state, loaded) ==
    [state EXCEPT !.pc = "readInput"]

\* after await loadSchema(schemaPath): the catch block for the error thrown,
\* or on to the await of fs.readFile(inputPath)
afterLoadSchema(state, loaded) ==
    IF loaded.pc = "thrown"
    THEN exitWithError(state, loaded.error.message,
                       IF loaded.error.code # "" THEN loaded.error.code
                       ELSE "UNKNOWN_ERROR")
    ELSE [debug(debug(state, "[DEBUG] Schema loaded successfully:"),
                "[DEBUG] Reading input from:")
            EXCEPT !.pc = "readInput"]

\* runExtraction(args) up to its first await: a missing argument ends the
\* run, else loadSchema is awaited
runExtraction(state) ==
    IF missingArgument(state.args) # ""
    THEN exitWithLines(state,
                       <<"Error: " \o missingArgument(state.args)
                             \o " is required",
                         UsageText>>)
    ELSE [debug(state, "[DEBUG] Loading schema from:")
            EXCEPT !.pc = "loadSchema"]

\* main once parseArgs has returned args
main(state) ==
    IF ~Truthy(state.args.command)
    THEN exitWithLines(state, <<"Error: No command specified. [...]">>)
    ELSE IF state.args.command[1] = "extract"
    THEN runExtraction(debug(state, "[DEBUG] Starting extraction with args:"))
    ELSE exitWithLines(state,
                       <<"Error: Unknown command \""
                             \o state.args.command[1] \o "\". [...]">>)

\* the result of the pipeline: data is <<>> when undefined; errors is the
\* list of {message, code}
ExtractionResult(success, data, confidence, meetsThreshold, errors) ==
    [success |-> success, data |-> data, confidence |-> confidence,
     confidenceByField |-> IF data = <<>> THEN [f \in {} |-> 0]
                           ELSE [f \in DOMAIN data[1] |-> confidence],
     meetsThreshold |-> meetsThreshold, errors |-> errors,
     metadata |-> [duration |-> 12]]

\* what await extract(...) settles with: a result returned, or a value
\* thrown, whose code is <<>> when it has none
Returns(result) ==
    [kind |-> "returned", result |-> result, message |-> "", code |-> <<>>]
Throws(message, code) ==
    [kind |-> "thrown",
     result |-> ExtractionResult(FALSE, <<>>, 0, FALSE, <<>>),
     message |-> message, code |-> code]

ExtractOutcomes ==
    {Returns(ExtractionResult(TRUE, <<[name |-> "John", age |-> "30"]>>, 95,
                              TRUE, <<>>)),
     Returns(ExtractionResult(FALSE, <<[name |-> "John", age |-> "old"]>>, 95,
                              TRUE,
                              <<[field |-> "age", message |-> "Expected number",
                                 code |-> "TYPE_MISMATCH"]>>)),
     Returns(ExtractionResult(FALSE, <<[name |-> "John", age |-> "30"]>>, 40,
                              FALSE,
                              <<[message |-> "Confidence below threshold",
                                 code |-> "LOW_CONFIDENCE"]>>)),
     Returns(ExtractionResult(FALSE, <<>>, 0, FALSE,
                              <<[message |-> "Network error",
                                 code |-> "LLM_ERROR"]>>)),
     Throws("Network error", <<"NETWORK_ERROR">>),
     Throws("Cannot read properties of undefined", <<>>)}

\* JSON.stringify(output): the members written, a property whose value is
\* undefined being left out
stringifyOutput(keys, result) ==
    [k \in {key \in keys : key = "data" => result.data # <<>>} |->
        IF k = "data" THEN result.data[1] ELSE result[k]]

\* a command that exits with 0 whenever extract returned a result
afterExtractAlwaysZero(state, outcome) ==
    LET done == [state EXCEPT !.pc = "exited", !.outcome = <<outcome>>]
    IN  IF outcome.kind = "thrown"
        THEN exitWithError(done, outcome.message,
                           IF Truthy(outcome.code) THEN outcome.code[1]
                           ELSE "UNKNOWN_ERROR")
        ELSE [debug(debug(done, "[DEBUG] Extraction complete"),
                    "[DEBUG] Result:")
                EXCEPT !.exitCode = <<0>>,
                       !.stdout = <<stringifyOutput(
                                      {"success", "data", "confidence",
                                       "confidenceByField", "meetsThreshold",
                                       "metadata"}, outcome.result)>>]

\* after await extract(...): a successful result goes to stdout and the
\* run exits with 0, another result goes to stderr and the run exits with
\* 1, and the catch block reports what was thrown
afterExtract(state, outcome) ==
    LET done == [state EXCEPT !.pc = "exited", !.outcome = <<outcome>>]
    IN  IF outcome.kind = "thrown"
        THEN exitWithError(done, outcome.message,
                           IF Truthy(outcome.code) THEN outcome.code[1]
                           ELSE "UNKNOWN_ERROR")
        ELSE IF outcome.result.success
        THEN [debug(debug(done, "[DEBUG] Extraction complete"),
                    "[DEBUG] Result:")
                EXCEPT !.exitCode = <<0>>,
                       !.stdout = <<stringifyOutput(
                                      {"success", "data", "confidence",
                                       "confidenceByField", "meetsThreshold",
                                       "metadata"}, outcome.result)>>]
        ELSE [debug(debug(done, "[DEBUG] Extraction complete"),
                    "[DEBUG] Result:")
                EXCEPT !.exitCode = <<1>>,
                       !.stderr = <<stringifyOutput(
                                      {"success", "errors", "data",
                                       "confidence", "meetsThreshold",
                                       "metadata"}, outcome.result)>>]

\* the command lines: short ones over a few words; extract with each subset
\* of the required options; the complete command line with --debug, with
\* --api-key given at the end, before the command or as one word, and with
\* a help or version flag put in at each place
BaseUrl == "http://localhost:11434/v1"
ModelName == "llama3.2:3b"

ExtractArgv(path, given) ==
    <<"extract">>
    \o (IF "schema" \in given THEN <<"--schema", path>> ELSE <<>>)
    \o (IF "input" \in given THEN <<"--input", "input.txt">> ELSE <<>>)
    \o (IF "base" \in given THEN <<"--base", BaseUrl>> ELSE <<>>)
    \o (IF "model" \in given THEN <<"--model", ModelName>> ELSE <<>>)

FullArgv(path) == ExtractArgv(path, {"schema", "input", "base", "model"})

insertAt(args, k, word) ==
    SubSeq(args, 1, k - 1) \o <<word>> \o SubSeq(args, k, Len(args))

ShortWords ==
    {"extract", "unknown", "", "--help", "-h", "--version", "-v", "--debug",
     "--schema", "--model", "x.json"}

Argvs ==
    {<<>>}
    \cup {<<w>> : w \in ShortWords}
    \cup {<<v, w>> : v \in ShortWords, w \in ShortWords}
    \cup {ExtractArgv(path, given) :
             path \in FilePaths,
             given \in SUBSET {"schema", "input", "base", "model"}}
    \cup {FullArgv(path) \o <<"--debug">> : path \in FilePaths}
    \cup {FullArgv(path) \o <<"--api-key", "sk-test">> : path \in FilePaths}
    \cup {<<"--api-key", "sk-test">> \o FullArgv(path) : path \in FilePaths}
    \cup {FullArgv(path) \o <<"--api-key=sk-test">> : path \in FilePaths}
    \cup {insertAt(FullArgv("invoice.schema.json"), k, word) :
             k \in 1 .. 10, word \in {"--help", "-v"}}

----------------------------------------------------------------------------
(* The state machine of one call of extract *)

TypeOK ==
    /\ retryConfig \in RetryConfigs
    /\ pc \in {"idle", "fetch", "json", "errorJson", "sleep", "done", "failed"}
    /\ attempt \in 0 .. (retryConfig.maxRetries + 1)
    /\ lastError.code \in LLMErrorCodes \cup {"none"}
    /\ delay.nan \in BOOLEAN
    /\ requests \in 0 .. (retryConfig.maxRetries + 1)
    /\ sleeps \in 0 .. retryConfig.maxRetries
    /\ timer \in {"none", "armed", "cleared", "fired"}
    /\ elapsed \in BOOLEAN
    /\ response.status \in Statuses \cup {0}
    /\ thrown.code \in LLMErrorCodes \cup {"none"}

\* no call of parseExtractionResponse is followed on its own
ParserIdle ==
    /\ schemaFields = {}
    /\ llmResponse = NullResponse
    /\ parsePc = "idle"
    /\ extraction = Returned(NoExtraction)

\* the calls of extract that can run on one client at the same time
CallIds == {"a", "b"}

\* a call of extract that has not been made
IdleCall ==
    [pc |-> "idle", attempt |-> 0, lastError |-> NoError, requests |-> 0,
     waits |-> <<>>, received |-> <<>>, thrown |-> NoError]

\* no calls are followed side by side
NoConcurrentCalls == calls = [c \in CallIds |-> IdleCall]

\* no run of the pipeline is followed
NoResult ==
    [success |-> FALSE, data |-> JUndefined, confidence |-> JUndefined,
     confidenceByField |-> JUndefined, meetsThreshold |-> FALSE,
     errors |-> <<>>, validated |-> FALSE]
PipelineIdle ==
    pipeline = [pc |-> "idle", schema |-> [fields |-> <<>>],
                outcome |-> Returned(NoExtraction), result |-> NoResult]

\* new LLMClient(config): the retry policy is config.retries or the default
Init ==
    /\ retryConfig \in RetryConfigs
    /\ pc = "idle"
    /\ attempt = 0
    /\ lastError = NoError
    /\ delay = Num(0)
    /\ requests = 0
    /\ sleeps = 0
    /\ timer = "none"
    /\ elapsed = FALSE
    /\ response = NoResponse
    /\ thrown = NoError
    /\ RequestIdle
    /\ ParserIdle
    /\ NoConcurrentCalls
    /\ PipelineIdle
    /\ NoPrompts
    /\ CommandIdle

\* chat, up to its await of fetch: arm the timeout timer and send the request
chat(llmRequest) ==
    /\ timer' = "armed"
    /\ elapsed' = FALSE
    /\ requests' = requests + 1
    /\ sent' = Append(sent, [url |-> config.baseURL \o "/chat/completions",
                             init |-> fetchInit(config, llmRequest)])
    /\ response' = NoResponse
    /\ pc' = "fetch"

\* a catch block that waits after the last attempt too, before it gives up
chatWithRetryCatchAlwaysWaits(error, random) ==
    /\ lastError' = error
    /\ IF ~isRetryableError(error)
       THEN /\ pc' = "failed"
            /\ thrown' = error
            /\ UNCHANGED <<delay, sleeps>>
       ELSE /\ delay' = calculateDelay(retryConfig, attempt, error, random)
            /\ sleeps' = sleeps + 1
            /\ pc' = "sleep"
            /\ UNCHANGED thrown
    /\ UNCHANGED <<retryConfig, attempt, requests>>

\* a catch block that, giving up, throws the error of the attempt before the
\* last one when there was one
chatWithRetryCatchThrowsEarlier(error, random) ==
    /\ lastError' = error
    /\ IF ~isRetryableError(error) \/ attempt = retryConfig.maxRetries
       THEN /\ pc' = "failed"
            /\ thrown' = IF lastError = NoError THEN error ELSE lastError
            /\ UNCHANGED <<delay, sleeps>>
       ELSE /\ delay' = calculateDelay(retryConfig, attempt, error, random)
            /\ sleeps' = sleeps + 1
            /\ pc' = "sleep"
            /\ UNCHANGED thrown
    /\ UNCHANGED <<retryConfig, attempt, requests>>

\* the catch block of chatWithRetry, for the LLMError chat threw, up to its
\* await of sleep
chatWithRetryCatch(error, random) ==
    /\ lastError' = error
    /\ IF ~isRetryableError(error) \/ attempt = retryConfig.maxRetries
       THEN /\ pc' = "failed"
            /\ thrown' = error
            /\ UNCHANGED <<delay, sleeps>>
       ELSE /\ delay' = calculateDelay(retryConfig, attempt, error, random)
            /\ sleeps' = sleeps + 1
            /\ pc' = "sleep"
            /\ UNCHANGED thrown
    /\ UNCHANGED <<retryConfig, attempt, requests>>

\* extract is called: the request is built, chatWithRetry enters its loop and
\* chat sends the first request
Extract ==
    /\ pc = "idle"
    /\ UNCHANGED notClientVars
    /\ IF 0 <= retryConfig.maxRetries
       THEN chat(LLMRequest(config, options)) /\ UNCHANGED thrown
       ELSE /\ pc' = "failed"
            /\ thrown' = NoError
            /\ UNCHANGED <<timer, elapsed, requests, response, sent>>
    /\ request' = LLMRequest(config, options)
    /\ UNCHANGED <<retryConfig, attempt, lastError, delay, sleeps, config,
                   options>>

\* fetch resolves with a Response (status line and headers): the timer is
\* cleared and the body is awaited, by chat or by handleErrorResponse
FetchResolves ==
    /\ pc = "fetch"
    /\ UNCHANGED notClientVars
    /\ UNCHANGED requestVars
    /\ \E status \in Statuses, header \in RetryAfterHeaders :
          /\ response' = [status |-> status, retryAfter |-> header,
                          body |-> "pending"]
          /\ pc' = IF ok(status) THEN "json" ELSE "errorJson"
    /\ timer' = "cleared"
    /\ UNCHANGED <<retryConfig, attempt, lastError, delay, requests, sleeps,
                   elapsed, thrown>>

\* FetchRejects with a catch block that leaves the timeout timer armed
FetchRejectsTimerKept ==
    /\ pc = "fetch"
    /\ UNCHANGED notClientVars
    /\ UNCHANGED requestVars
    /\ UNCHANGED timer
    /\ \E random \in RandomSamples :
          chatWithRetryCatch(chatCatch(PlainError("TypeError")), random)
    /\ UNCHANGED <<elapsed, response>>

\* fetch rejects without a response (connection refused, DNS failure)
FetchRejects ==
    /\ pc = "fetch"
    /\ UNCHANGED notClientVars
    /\ UNCHANGED requestVars
    /\ timer' = "cleared"
    /\ \E random \in RandomSamples :
          chatWithRetryCatch(chatCatch(PlainError("TypeError")), random)
    /\ UNCHANGED <<elapsed, response>>

\* config.timeout passes after the attempt began: a timer still armed runs
\* its callback, controller.abort(), and fetch rejects with an AbortError
TimeoutElapses ==
    /\ pc \in {"fetch", "json", "errorJson"}
    /\ UNCHANGED notClientVars
    /\ UNCHANGED requestVars
    /\ ~elapsed
    /\ elapsed' = TRUE
    /\ IF timer = "armed"
       THEN /\ timer' = "fired"
            /\ \E random \in RandomSamples :
                  chatWithRetryCatch(chatCatch(PlainError("AbortError")), random)
            /\ UNCHANGED response
       ELSE UNCHANGED <<retryConfig, pc, attempt, lastError, delay, requests,
                        sleeps, timer, response, thrown>>

\* response.json() of a 2xx response resolves: chat and chatWithRetry return
\* and extract parses the response
JsonResolves ==
    /\ pc = "json"
    /\ UNCHANGED notClientVars
    /\ UNCHANGED requestVars
    /\ \E body \in JsonBodies :
          /\ response' = [response EXCEPT !.body = body]
          /\ thrown' = parseExtractionResponse(ResponseOfBody(body)).thrown
          /\ pc' = IF parseExtractionResponse(ResponseOfBody(body)).thrown
                        = NoError
                   THEN "done" ELSE "failed"
    /\ UNCHANGED <<retryConfig, attempt, lastError, delay, requests, sleeps,
                   timer, elapsed>>

\* response.json() of a 2xx response rejects
JsonRejects ==
    /\ pc = "json"
    /\ UNCHANGED notClientVars
    /\ UNCHANGED requestVars
    /\ \E reason \in JsonRejections, random \in RandomSamples :
          /\ response' = [response EXCEPT !.body = reason]
          /\ chatWithRetryCatch(chatCatch(PlainError(reason)), random)
    /\ UNCHANGED <<timer, elapsed>>

\* response.json() of an error response settles: handleErrorResponse throws
\* the classified LLMError
ErrorJsonSettles ==
    /\ pc = "errorJson"
    /\ UNCHANGED notClientVars
    /\ UNCHANGED requestVars
    /\ \E errorBody \in ErrorBodies, random \in RandomSamples :
          /\ response' = [response EXCEPT !.body = errorBody]
          /\ chatWithRetryCatch(
                chatCatch(handleErrorResponse(response, errorBody)), random)
    /\ UNCHANGED <<timer, elapsed>>

\* SleepResolves with the attempt++ left out
SleepResolvesNoIncrement ==
    /\ pc = "sleep"
    /\ UNCHANGED notClientVars
    /\ attempt' = attempt
    /\ IF attempt <= retryConfig.maxRetries
       THEN chat(request) /\ UNCHANGED thrown
       ELSE /\ pc' = "failed"
            /\ thrown' = lastError
            /\ UNCHANGED <<timer, elapsed, requests, response, sent>>
    /\ UNCHANGED <<retryConfig, lastError, delay, sleeps, config, options,
                   request>>

\* a retry that sends the request again with the temperature raised to 1
SleepResolvesWarmer ==
    /\ pc = "sleep"
    /\ UNCHANGED notClientVars
    /\ attempt' = attempt + 1
    /\ IF attempt + 1 <= retryConfig.maxRetries
       THEN chat([request EXCEPT !.temperature = <<1>>]) /\ UNCHANGED thrown
       ELSE /\ pc' = "failed"
            /\ thrown' = lastError
            /\ UNCHANGED <<timer, elapsed, requests, response, sent>>
    /\ UNCHANGED <<retryConfig, lastError, delay, sleeps, config, options,
                   request>>

\* the sleep timer fires: attempt++, and the loop calls chat again
SleepResolves ==
    /\ pc = "sleep"
    /\ UNCHANGED notClientVars
    /\ attempt' = attempt + 1
    /\ IF attempt + 1 <= retryConfig.maxRetries
       THEN chat(request) /\ UNCHANGED thrown
       ELSE /\ pc' = "failed"
            /\ thrown' = lastError
            /\ UNCHANGED <<timer, elapsed, requests, response, sent>>
    /\ UNCHANGED <<retryConfig, lastError, delay, sleeps, config, options,
                   request>>

Next ==
    \/ Extract
    \/ FetchResolves
    \/ FetchRejects
    \/ TimeoutElapses
    \/ JsonResolves
    \/ JsonRejects
    \/ ErrorJsonSettles
    \/ SleepResolves

Spec == Init /\ [][Next]_vars

\* timers fire (the timeout timer and the sleep timer) and a call that was
\* made starts
FairSpec ==
    /\ Spec
    /\ WF_vars(Extract)
    /\ WF_vars(TimeoutElapses)
    /\ WF_vars(SleepResolves)

----------------------------------------------------------------------------
(* The parser on its own: the last step of extract, for every answer *)

\* extract has received llmResponse from chatWithRetry for a schema
InitParse ==
    /\ retryConfig = DefaultRetryConfig
    /\ pc = "idle"
    /\ attempt = 0
    /\ lastError = NoError
    /\ delay = Num(0)
    /\ requests = 0
    /\ sleeps = 0
    /\ timer = "none"
    /\ elapsed = FALSE
    /\ response = NoResponse
    /\ thrown = NoError
    /\ RequestIdle
    /\ schemaFields \in Schemas
    /\ llmResponse \in LLMResponses \cup VariedResponses
    /\ parsePc = "called"
    /\ extraction = Returned(NoExtraction)
    /\ NoConcurrentCalls
    /\ PipelineIdle
    /\ NoPrompts
    /\ CommandIdle

\* return this.parseExtractionResponse(response)
ParseExtractionResponse ==
    /\ parsePc = "called"
    /\ extraction' = parseExtractionResponse(llmResponse)
    /\ parsePc' = IF parseExtractionResponse(llmResponse).thrown = NoError
                  THEN "returned" ELSE "thrown"
    /\ UNCHANGED <<notParserVars, schemaFields, llmResponse>>

NextParse == ParseExtractionResponse

SpecParse == InitParse /\ [][NextParse]_vars

----------------------------------------------------------------------------
(* Calls of extract running side by side on one LLMClient *)

\* what a call of chat gives: it returns the LLMResponse of a body, or it
\* throws an LLMError; random is what Math.random() would give calculateDelay
ChatReturns(body) == [thrown |-> NoError, body |-> body, random |-> 0]
ChatThrows(error, random) == [thrown |-> error, body |-> "none", random |-> random]

ErrorResponse(status, header) ==
    [status |-> status, retryAfter |-> header, body |-> "pending"]

ChatOutcomes ==
    {ChatReturns("valid"), ChatReturns("badcontent"),
     ChatThrows(handleErrorResponse(ErrorResponse(401, <<>>), "message"), 0),
     ChatThrows(handleErrorResponse(ErrorResponse(429, <<"0.5">>), "message"), 0)}
    \cup {ChatThrows(chatCatch(PlainError("AbortError")), random) :
             random \in {0, JitterSteps - 1}}

\* the policies of the clients that are shared
SharedRetryConfigs ==
    {cfg \in RetryConfigs : cfg.initialDelay = 100 /\ cfg.backoffFactor = 2}

\* one client, and no call of extract made yet
InitConcurrent ==
    /\ retryConfig \in SharedRetryConfigs
    /\ pc = "idle"
    /\ attempt = 0
    /\ lastError = NoError
    /\ delay = Num(0)
    /\ requests = 0
    /\ sleeps = 0
    /\ timer = "none"
    /\ elapsed = FALSE
    /\ response = NoResponse
    /\ thrown = NoError
    /\ RequestIdle
    /\ ParserIdle
    /\ NoConcurrentCalls
    /\ PipelineIdle
    /\ NoPrompts
    /\ CommandIdle

\* extract is called: chatWithRetry sets its lastError and attempt, enters
\* the loop and awaits chat
CallExtract(c) ==
    /\ calls[c].pc = "idle"
    /\ calls' = [calls EXCEPT ![c] =
            IF 0 <= retryConfig.maxRetries
            THEN [@ EXCEPT !.pc = "chat", !.attempt = 0, !.lastError = NoError,
                           !.requests = @ + 1]
            ELSE [@ EXCEPT !.pc = "failed"]]
    /\ UNCHANGED notConcurrentVars

\* the call after chat returned: extract parses the response
callReturn(call, outcome) ==
    LET parsed == parseExtractionResponse(ResponseOfBody(outcome.body))
    IN  [call EXCEPT !.received = Append(@, outcome),
                     !.pc = IF parsed.thrown = NoError THEN "done" ELSE "failed",
                     !.thrown = parsed.thrown]

\* the call after chat threw: the catch block of chatWithRetry
callCatch(cfg, call, outcome) ==
    IF ~isRetryableError(outcome.thrown) \/ call.attempt = cfg.maxRetries
    THEN [call EXCEPT !.received = Append(@, outcome),
                      !.lastError = outcome.thrown,
                      !.pc = "failed",
                      !.thrown = outcome.thrown]
    ELSE [call EXCEPT !.received = Append(@, outcome),
                      !.lastError = outcome.thrown,
                      !.pc = "sleep",
                      !.waits = Append(@, calculateDelay(cfg, call.attempt,
                                              outcome.thrown, outcome.random))]

\* the promise of chat settles for call c
ChatSettles(c) ==
    /\ calls[c].pc = "chat"
    /\ \E outcome \in ChatOutcomes :
          calls' = [calls EXCEPT ![c] =
              IF outcome.thrown = NoError
              THEN callReturn(@, outcome)
              ELSE callCatch(retryConfig, @, outcome)]
    /\ UNCHANGED notConcurrentVars

\* the call after its sleep: attempt++, then the loop calls chat again or,
\* its guard being false, ends and throws lastError
callSleepResolved(cfg, call) ==
    IF call.attempt + 1 <= cfg.maxRetries
    THEN [call EXCEPT !.attempt = @ + 1, !.pc = "chat", !.requests = @ + 1]
    ELSE [call EXCEPT !.attempt = @ + 1, !.pc = "failed",
                      !.thrown = call.lastError]

\* a client whose attempt counter is a field of the client: the attempt++
\* of one call counts for every call
CallSleepResolvesShared(c) ==
    /\ calls[c].pc = "sleep"
    /\ calls' = [d \in CallIds |->
            IF d = c THEN callSleepResolved(retryConfig, calls[c])
            ELSE [calls[d] EXCEPT !.attempt = @ + 1]]
    /\ UNCHANGED notConcurrentVars

\* the sleep timer of call c fires
CallSleepResolves(c) ==
    /\ calls[c].pc = "sleep"
    /\ calls' = [calls EXCEPT ![c] = callSleepResolved(retryConfig, @)]
    /\ UNCHANGED notConcurrentVars

NextConcurrent ==
    \E c \in CallIds :
        \/ CallExtract(c)
        \/ ChatSettles(c)
        \/ CallSleepResolves(c)

SpecConcurrent == InitConcurrent /\ [][NextConcurrent]_vars

----------------------------------------------------------------------------
(* The extraction pipeline: extract(input, schema, config) of core/pipeline *)

\* a FieldDefinition: range is <<>> or <<min, max>>, enum is {} (none) or
\* the set of its literals
FieldDefinition(name, type, optional, range, enum) ==
    [name |-> name, type |-> type, optional |-> optional, range |-> range,
     enum |-> enum]

\* schema.confidence: unset, or a threshold with failOnLowConfidence
NoConfidence == [set |-> FALSE, threshold |-> 0, failOnLowConfidence |-> FALSE]
ConfidenceSettings ==
    {NoConfidence}
    \cup [set : {TRUE}, threshold : {0, 80, 100}, failOnLowConfidence : BOOLEAN]

\* the fields of the schemas, in the order of their declaration
PipelineFields ==
    {<<FieldDefinition("name", "string", FALSE, <<>>, {})>>,
     <<FieldDefinition("amount", "number", FALSE, <<0, 100>>, {})>>,
     <<FieldDefinition("name", "string", FALSE, <<>>, {"John", "Jane"}),
       FieldDefinition("amount", "number", TRUE, <<0, 100>>, {})>>}

PipelineSchemas == [fields : PipelineFields, confidence : ConfidenceSettings]

\* the ExtractionResponses the completion client can return
ExtractionResponses ==
    {[data |-> JObject(o), confidence |-> JNumber(c),
      confidenceByField |-> JObject([k \in DOMAIN o |-> JNumber(c)])] :
        o \in ObjectsOver([name |-> {JString("John"), JString("Bob"), JNull},
                           amount |-> {JNumber(50), JNumber(150), JString("42"),
                                       JNull}]),
        c \in {0, 79, 80, 81, 100}}

\* the LLMErrors the completion client can end in FAILED with
ClientFailures == {LLMError("failed", code, 0, <<>>) : code \in LLMErrorCodes}

\* an entry of the errors of a result; field "" is no field
ResultError(field, message, code) ==
    [field |-> field, message |-> message, code |-> code]

\* a check that reads a numeric string as a number where the field is
\* declared number
validateFieldCoercing(def, value) ==
    LET error(message) ==
            <<ResultError(def.name, message, "FieldValidationError")>>
        coerced == IF def.type = "number" /\ value = JString("42")
                   THEN JNumber(42) ELSE value
    IN  IF coerced.type \in {"undefined", "null"}
        THEN IF def.optional THEN <<>> ELSE error("required")
        ELSE IF coerced.type # def.type THEN error("type")
        ELSE IF /\ def.type = "number" /\ def.range # <<>>
                /\ (coerced.num < def.range[1] \/ coerced.num > def.range[2])
        THEN error("range")
        ELSE <<>>

\* the check of one field's value: no error, or one FieldValidationError
validateField(def, value) ==
    LET error(message) ==
            <<ResultError(def.name, message, "FieldValidationError")>>
    IN  IF value.type \in {"undefined", "null"}
        THEN IF def.optional THEN <<>> ELSE error("required")
        ELSE IF value.type # def.type THEN error("type")
        ELSE IF /\ def.type = "number" /\ def.range # <<>>
                /\ (value.num < def.range[1] \/ value.num > def.range[2])
        THEN error("range")
        ELSE IF def.enum # {} /\ value.str \notin def.enum THEN error("enum")
        ELSE <<>>

\* field validation that stops at the first field in error
RECURSIVE validateFieldsFirstOnly(_, _)
validateFieldsFirstOnly(fields, data) ==
    IF fields = <<>> THEN <<>>
    ELSE IF validateField(Head(fields), Get(data, Head(fields).name)) # <<>>
    THEN validateField(Head(fields), Get(data, Head(fields).name))
    ELSE validateFieldsFirstOnly(Tail(fields), data)

\* schema-level field validation: the field errors, in the order of the
\* schema's declaration
RECURSIVE validateFields(_, _)
validateFields(fields, data) ==
    IF fields = <<>> THEN <<>>
    ELSE validateField(Head(fields), Get(data, Head(fields).name))
         \o validateFields(Tail(fields), data)

\* the threshold met only by a confidence above it
meetsThresholdStrict(schema, confidence) ==
    confidence.num > schema.confidence.threshold

\* meetsThreshold = confidence >= schema.confidence.threshold, the threshold
\* being 0 when the schema sets none
meetsThreshold(schema, confidence) ==
    confidence.num >= (IF schema.confidence.set
                       THEN schema.confidence.threshold ELSE 0)

\* success that needs the threshold whatever failOnLowConfidence says
isSuccessAlwaysThreshold(schema, errors, meets) ==
    errors = <<>> /\ meets

\* success of a parsed response
isSuccess(schema, errors, meets) ==
    /\ errors = <<>>
    /\ (meets \/ ~(schema.confidence.set /\ schema.confidence.failOnLowConfidence))

\* the ExtractionResult for a parsed response
parsedResult(schema, resp) ==
    LET errors == validateFields(schema.fields, resp.data)
        meets == meetsThreshold(schema, resp.confidence)
    IN  [success |-> isSuccess(schema, errors, meets),
         data |-> resp.data,
         confidence |-> resp.confidence,
         confidenceByField |-> resp.confidenceByField,
         meetsThreshold |-> meets,
         errors |-> errors,
         validated |-> TRUE]

\* a failed result that names no code of the client
failedResultUnknownCode(error) ==
    [NoResult EXCEPT !.errors = <<ResultError("", error.message, "UNKNOWN_ERROR")>>]

\* the ExtractionResult when the completion client ended in FAILED: one
\* error with the classified code, no field validation
failedResult(error) ==
    [NoResult EXCEPT !.errors = <<ResultError("", error.message, error.code)>>]

\* a schema was validated and a run of the pipeline may start
InitPipeline ==
    /\ retryConfig = DefaultRetryConfig
    /\ pc = "idle"
    /\ attempt = 0
    /\ lastError = NoError
    /\ delay = Num(0)
    /\ requests = 0
    /\ sleeps = 0
    /\ timer = "none"
    /\ elapsed = FALSE
    /\ response = NoResponse
    /\ thrown = NoError
    /\ RequestIdle
    /\ ParserIdle
    /\ NoConcurrentCalls
    /\ NoPrompts
    /\ CommandIdle
    /\ \E schema \in PipelineSchemas :
          pipeline = [pc |-> "idle", schema |-> schema,
                      outcome |-> Returned(NoExtraction), result |-> NoResult]

\* extract is called: the prompts are built and the completion client is
\* invoked
PipelineExtract ==
    /\ pipeline.pc = "idle"
    /\ pipeline' = [pipeline EXCEPT !.pc = "client"]
    /\ UNCHANGED notPipelineVars

\* the completion client returns the parsed response: field validation, the
\* threshold decision, the result
ClientReturns ==
    /\ pipeline.pc = "client"
    /\ \E resp \in ExtractionResponses :
          pipeline' = [pipeline EXCEPT
                          !.pc = "done",
                          !.outcome = Returned(resp),
                          !.result = parsedResult(pipeline.schema, resp)]
    /\ UNCHANGED notPipelineVars

\* the completion client ends in FAILED: the pipeline short-circuits
ClientFails ==
    /\ pipeline.pc = "client"
    /\ \E error \in ClientFailures :
          pipeline' = [pipeline EXCEPT
                          !.pc = "done",
                          !.outcome = Thrown(error, <<>>),
                          !.result = failedResult(error)]
    /\ UNCHANGED notPipelineVars

NextPipeline ==
    \/ PipelineExtract
    \/ ClientReturns
    \/ ClientFails

SpecPipeline == InitPipeline /\ [][NextPipeline]_vars

----------------------------------------------------------------------------
(* Calls of extract on clients constructed with different configs *)

\* the config objects given to the constructor: apiKey, temperature and
\* maxTokens left out, undefined, or set (apiKey to the empty string too)
LLMConfigs ==
    {LLMConfig("http://localhost:11434/v1", "llama3.2:3b", apiKey,
               temperature, maxTokens) :
        apiKey \in {<<>>, <<<<>>>>, <<<<"">>>>, <<<<"sk-test">>>>},
        temperature \in {<<>>, <<<<>>>>, <<<<1>>>>},
        maxTokens \in {<<>>, <<<<500>>>>}}

\* new LLMClient(config) with a retry policy of one retry without delay, and
\* the options of the call of extract to come
InitRequest ==
    /\ retryConfig = [maxRetries |-> 1, initialDelay |-> 0, maxDelay |-> 2500,
                      backoffFactor |-> 3]
    /\ pc = "idle"
    /\ attempt = 0
    /\ lastError = NoError
    /\ delay = Num(0)
    /\ requests = 0
    /\ sleeps = 0
    /\ timer = "none"
    /\ elapsed = FALSE
    /\ response = NoResponse
    /\ thrown = NoError
    /\ \E given \in LLMConfigs : config = newConfig(given)
    /\ \E systemPrompt \in {<<>>, <<"">>, <<"Extract the name.">>} :
          options = ExtractionOptions(PersonSchema, "My name is John",
                                      systemPrompt)
    /\ request = NoRequest
    /\ sent = <<>>
    /\ ParserIdle
    /\ NoConcurrentCalls
    /\ PipelineIdle
    /\ NoPrompts
    /\ CommandIdle

SpecRequest == InitRequest /\ [][Next]_vars

----------------------------------------------------------------------------
(* Calls of the schema loaders *)

InitCommand ==
    /\ retryConfig = DefaultRetryConfig
    /\ pc = "idle"
    /\ attempt = 0
    /\ lastError = NoError
    /\ delay = Num(0)
    /\ requests = 0
    /\ sleeps = 0
    /\ timer = "none"
    /\ elapsed = FALSE
    /\ response = NoResponse
    /\ thrown = NoError
    /\ RequestIdle
    /\ ParserIdle
    /\ NoConcurrentCalls
    /\ PipelineIdle
    /\ NoPrompts
    /\ CommandIdle

\* loadSchema(filePath) is called
LoadSchema ==
    /\ loader.pc = "idle"
    /\ \E filePath \in FilePaths, file \in Files :
          loader' = loadSchema(filePath, file)
    /\ UNCHANGED <<notCommandVars, cli>>

\* fs.access resolves or rejects
AccessSettles ==
    /\ loader.pc = "access"
    /\ loader' = accessSettled(loader)
    /\ UNCHANGED <<notCommandVars, cli>>

\* fs.readFile resolves or rejects
ReadFileSettles ==
    /\ loader.pc = "readFile"
    /\ loader' = readFileSettled(loader)
    /\ UNCHANGED <<notCommandVars, cli>>

\* parseSchema(jsonString) is called
ParseSchema ==
    /\ loader.pc = "idle"
    /\ \E raw \in RawSchemas :
          loader' = parseSchema(File("ok", "ok", <<JsonText>>, raw))
    /\ UNCHANGED <<notCommandVars, cli>>

\* parseSchema is called with a string that is no JSON
ParseSchemaNoJson ==
    /\ loader.pc = "idle"
    /\ loader' = parseSchema(File("ok", "ok", NotJsonText,
                                  RawSchema(<<>>, <<>>)))
    /\ UNCHANGED <<notCommandVars, cli>>

\* loadSchemaFromObject(obj) is called
LoadSchemaFromObject ==
    /\ loader.pc = "idle"
    /\ \E raw \in RawSchemas :
          loader' = loadSchemaFromObject(File("ok", "ok", <<>>, raw))
    /\ UNCHANGED <<notCommandVars, cli>>

\* the schema a loader returned is validated again, by loadSchemaFromObject
LoadAgain ==
    /\ loader.pc = "returned"
    /\ loader.again = <<>>
    /\ loader' = [loader EXCEPT !.again =
                    <<loadSchemaFromObject(
                          File("ok", "ok", <<>>, loader.returned[1]))>>]
    /\ UNCHANGED <<notCommandVars, cli>>

NextLoader ==
    \/ LoadSchema
    \/ AccessSettles
    \/ ReadFileSettles
    \/ ParseSchema
    \/ ParseSchemaNoJson
    \/ LoadSchemaFromObject
    \/ LoadAgain

SpecLoader == InitCommand /\ [][NextLoader]_vars

----------------------------------------------------------------------------
(* Runs of the extract command *)

\* main(): parseArgs(process.argv) prints the help or the version and ends
\* the process, or returns args; then main checks the command and
\* runExtraction the required arguments, and loadSchema is called for the
\* resolved path, which holds file
Main ==
    /\ cli.pc = "idle"
    /\ loader.pc = "idle"
    /\ \E argv \in Argvs, file \in Files :
          LET parsed  == parseArgs(argv)
              started == [cli EXCEPT !.argv = argv]
              next    ==
                IF parsed.exit # <<>>
                THEN [started EXCEPT
                        !.pc = "exited",
                        !.exitCode = <<0>>,
                        !.stdout = <<IF parsed.exit = <<"help">>
                                     THEN HelpText ELSE VersionText>>]
                ELSE main([started EXCEPT !.args = parsed.parsed])
          IN  /\ cli' = next
              /\ loader' = IF next.pc = "loadSchema"
                           THEN loadSchema(pathResolve(next.args.schema[1]),
                                           file)
                           ELSE loader
    /\ UNCHANGED notCommandVars

\* await loadSchema(schemaPath) settles
LoadSchemaSettles ==
    /\ cli.pc = "loadSchema"
    /\ loader.pc \in {"returned", "thrown"}
    /\ cli' = afterLoadSchema(cli, loader)
    /\ UNCHANGED <<notCommandVars, loader>>

\* await fs.readFile(inputPath) settles: the catch block for a rejection,
\* or the call of extract of the pipeline
ReadInputSettles ==
    /\ cli.pc = "readInput"
    /\ \/ cli' = exitWithError(cli, ErrnoMessage("ENOENT"), "ENOENT")
       \/ cli' = [debug(debug(debug(cli, "[DEBUG] Input loaded:"),
                               "[DEBUG] LLM config:"),
                         "[DEBUG] Starting extraction pipeline...")
                    EXCEPT !.pc = "extract",
                           !.llmConfig = <<LLMConfig(cli.args.base[1],
                                                     cli.args.model[1],
                                                     <<>>, <<>>, <<>>)>>,
                           !.extractCalls = @ + 1]
    /\ UNCHANGED <<notCommandVars, loader>>

\* await extract(...) settles, the pipeline having sent one request or two:
\* the result is written to stdout and the run exits with 0, or it is
\* written to stderr and the run exits with 1
ExtractSettles ==
    /\ cli.pc = "extract"
    /\ \E sentRequests \in {1, 2}, outcome \in ExtractOutcomes :
          cli' = afterExtract([cli EXCEPT !.requests = sentRequests], outcome)
    /\ UNCHANGED <<notCommandVars, loader>>

NextCli ==
    \/ Main
    \/ AccessSettles
    \/ ReadFileSettles
    \/ LoadSchemaSettles
    \/ ReadInputSettles
    \/ ExtractSettles

SpecCli == InitCommand /\ [][NextCli]_vars

----------------------------------------------------------------------------
(* The prompt builder called again and again *)

\* a schema and an input text, and no call made yet
InitPrompt ==
    /\ retryConfig = DefaultRetryConfig
    /\ pc = "idle"
    /\ attempt = 0
    /\ lastError = NoError
    /\ delay = Num(0)
    /\ requests = 0
    /\ sleeps = 0
    /\ timer = "none"
    /\ elapsed = FALSE
    /\ response = NoResponse
    /\ thrown = NoError
    /\ RequestIdle
    /\ ParserIdle
    /\ NoConcurrentCalls
    /\ PipelineIdle
    /\ \E schema \in PromptSchemas, input \in {"", "My name is John"} :
          prompts = [schema |-> schema, input |-> input, calls |-> 0,
                     system |-> <<>>, user |-> <<>>]
    /\ CommandIdle

\* buildSystemPrompt(schema) is called
BuildSystemPrompt ==
    /\ prompts.calls < MaxPromptCalls
    /\ Len(prompts.system) < 2
    /\ prompts' = [prompts EXCEPT
                      !.calls = @ + 1,
                      !.system = Append(@, buildSystemPrompt(prompts.schema))]
    /\ UNCHANGED notPromptVars

\* buildUserPrompt(input) is called
BuildUserPrompt ==
    /\ prompts.calls < MaxPromptCalls
    /\ Len(prompts.user) < 2
    /\ prompts' = [prompts EXCEPT
                      !.calls = @ + 1,
                      !.user = Append(@, buildUserPrompt(prompts.input))]
    /\ UNCHANGED notPromptVars

\* the builder is called for another schema or input
BuildOtherPrompt ==
    /\ prompts.calls < MaxPromptCalls
    /\ prompts' = [prompts EXCEPT !.calls = @ + 1]
    /\ UNCHANGED notPromptVars

NextPrompt ==
    \/ BuildSystemPrompt
    \/ BuildUserPrompt
    \/ BuildOtherPrompt

SpecPrompt == InitPrompt /\ [][NextPrompt]_vars

----------------------------------------------------------------------------
(* Claims *)

Terminated == pc \in {"done", "failed"}

\* the current attempt's response is a 2xx whose body was received: either
\* response.json() resolved or it rejected the text as not being JSON
Received2xx(resp) ==
    ok(resp.status) /\ resp.body \in JsonBodies \cup {"SyntaxError"}

\* this step ends an attempt with a failure of the request (chat threw)
AttemptFails ==
    /\ pc \in {"fetch", "json", "errorJson"}
    /\ pc' \in {"sleep", "failed"}
    /\ ~(pc = "json" /\ response'.body \in JsonBodies)

\* C1: within one call of extract, a further request is sent only from a
\* backoff wait that followed a failure with a retryable code at an attempt
\* n < maxRetries, and it is attempt n + 1; an attempt that received a 2xx
\* response ends the retry loop at once, with no wait and no further request;
\* a failed attempt whose code is not retryable, or with n = maxRetries, ends
\* the call with that error, and any other failed attempt goes to the backoff.
C1_RetryStateMachine ==
    [][ /\ (requests' # requests) =>
              /\ requests' = requests + 1
              /\ \/ pc = "idle"
                 \/ /\ pc = "sleep"
                    /\ isRetryableError(lastError)
                    /\ attempt < retryConfig.maxRetries
                    /\ attempt' = attempt + 1
        /\ Received2xx(response') =>
              /\ pc' \in {"done", "failed"}
              /\ thrown'.code \in {"none", "INVALID_RESPONSE"}
              /\ sleeps' = sleeps
        /\ AttemptFails =>
              IF isRetryableError(lastError') /\ attempt < retryConfig.maxRetries
              THEN pc' = "sleep" /\ sleeps' = sleeps + 1
              ELSE pc' = "failed" /\ thrown' = lastError'
      ]_vars

\* C2: a call of extract sends at most maxRetries + 1 requests: at most 4
\* under the default policy, and exactly 1 once it has ended with
\* maxRetries = 0.
C2_BoundedRequests ==
    /\ requests <= retryConfig.maxRetries + 1
    /\ retryConfig = DefaultRetryConfig => requests <= 4
    /\ (retryConfig.maxRetries = 0 /\ pc # "idle") => requests = 1

\* the default policy used up: four requests, all failed
C2_Witness ==
    /\ retryConfig = DefaultRetryConfig
    /\ pc = "failed"
    /\ requests = 4
    /\ isRetryableError(thrown)

\* C3: when the first response is a 401 or a 403, no wait and no second
\* request follow, whatever maxRetries is, and once the error body has been
\* read the call has failed with an LLMError of code AUTHENTICATION_ERROR.
C3_AuthFailsAtOnce ==
    (requests = 1 /\ response.status \in {401, 403}) =>
        /\ sleeps = 0
        /\ attempt = 0
        /\ pc \in {"errorJson", "failed"}
        /\ pc = "failed" =>
              /\ thrown.name = "LLMError"
              /\ thrown.code = "AUTHENTICATION_ERROR"

\* a first response 401 under a policy that allows retries: the call failed
C3_Witness ==
    /\ retryConfig.maxRetries = DefaultMaxRetries
    /\ requests = 1
    /\ response.status = 401
    /\ pc = "failed"
    /\ thrown.code = "AUTHENTICATION_ERROR"

\* C4: a 2xx response whose body is not JSON, has no choices or has no
\* message content makes the call fail with code INVALID_RESPONSE and is not
\* retried.
C4_BrokenBodyNotRetried ==
    (ok(response.status)
        /\ response.body \in {"SyntaxError", "nochoices", "nocontent"}) =>
        /\ pc = "failed"
        /\ thrown.name = "LLMError"
        /\ thrown.code = "INVALID_RESPONSE"

\* the code the table of C5 gives a non-2xx status
SpecifiedCode(status) ==
    CASE status \in {401, 403} -> "AUTHENTICATION_ERROR"
      [] status = 429          -> "RATE_LIMIT"
      [] OTHER                 -> "API_ERROR"

\* C5: once the body of a non-2xx response with status s has settled,
\* parseable or not, the attempt has failed with an LLMError whose code is
\* AUTHENTICATION_ERROR for 401 and 403, RATE_LIMIT for 429 and API_ERROR for
\* any other status, and whose status code is s.
C5_StatusClassification ==
    response.body \in ErrorBodies =>
        /\ ~ok(response.status)
        /\ lastError.name = "LLMError"
        /\ lastError.code = SpecifiedCode(response.status)
        /\ lastError.statusCode = response.status

\* a 403 whose error body is not JSON was classified
C5_Witness ==
    /\ response.status = 403
    /\ response.body = "unparseable"
    /\ lastError.code = "AUTHENTICATION_ERROR"
    /\ lastError.statusCode = 403

\* the attempt ended without a response: fetch rejected, not by the timeout
TransportFailed ==
    pc \in {"sleep", "failed"} /\ response = NoResponse /\ timer = "cleared"

\* the attempt ended because its timeout timer fired
TimedOut == pc \in {"sleep", "failed"} /\ timer = "fired"

\* C6: an attempt whose fetch rejects without a response fails with code
\* NETWORK_ERROR, an attempt aborted by its timeout timer fails with code
\* TIMEOUT, and in both cases, if attempt < maxRetries, the call goes to the
\* backoff wait before a further attempt instead of failing.
C6_TransportAndTimeout ==
    /\ TransportFailed => lastError.code = "NETWORK_ERROR"
    /\ TimedOut => lastError.code = "TIMEOUT"
    /\ (TransportFailed \/ TimedOut) =>
          /\ lastError.name = "LLMError"
          /\ attempt < retryConfig.maxRetries => pc = "sleep"
          /\ attempt = retryConfig.maxRetries =>
                pc = "failed" /\ thrown = lastError

\* the second attempt was aborted by its timeout and a retry is still to
\* come: the call is in its second backoff wait
C6_Witness ==
    /\ TimedOut
    /\ lastError.code = "TIMEOUT"
    /\ attempt = 1
    /\ sleeps = 2
    /\ pc = "sleep"

\* Number(s) * 1000 in ticks, for the numeric header texts s
NumericHeaders == {"0", "2", "20", "-1", "0.5"}
RetryAfterMs(text) ==
    CASE text = "0"   -> 0
      [] text = "2"   -> 2000
      [] text = "20"  -> 20000
      [] text = "-1"  -> 0 - 1000
      [] text = "0.5" -> 500

Min(a, b) == IF a <= b THEN a ELSE b

\* the call waits, or has waited, for the delay computed from lastError
DelayOfLastError == sleeps > 0 /\ pc \in {"sleep", "fetch", "json", "errorJson", "done"}

\* C7: after a 429 response with Retry-After: s, s a number of seconds, the
\* wait before the next attempt is min(s * 1000 ms, maxDelay); and when the
\* responses are a 429 with Retry-After: 2 and then a 200 under the default
\* policy, the wait before the second attempt is at least 2000 ms and below
\* maxDelay.
C7_RetryAfterWait ==
    (/\ DelayOfLastError
     /\ lastError.code = "RATE_LIMIT"
     /\ lastError.retryAfter # <<>>
     /\ lastError.retryAfter[1] \in NumericHeaders) =>
        /\ ~delay.nan
        /\ delay.t = Min(RetryAfterMs(lastError.retryAfter[1]),
                         retryConfig.maxDelay) * TicksPerMs
        /\ (/\ retryConfig = DefaultRetryConfig
            /\ lastError.retryAfter = <<"2">>
            /\ requests = 2
            /\ ok(response.status)) =>
              /\ delay.t >= 2000 * TicksPerMs
              /\ delay.t < retryConfig.maxDelay * TicksPerMs

\* default policy, a 429 with Retry-After: 2, then a 200 with a valid answer:
\* extract returned at the second attempt after a wait of 2000 ms
C7_Witness ==
    /\ retryConfig = DefaultRetryConfig
    /\ pc = "done"
    /\ requests = 2
    /\ attempt = 1
    /\ lastError.code = "RATE_LIMIT"
    /\ lastError.retryAfter = <<"2">>
    /\ delay = Num(2000 * TicksPerMs)

\* initialDelay * backoffFactor^n, in ms
Base(cfg, n) == cfg.initialDelay * MathPow(cfg.backoffFactor, n)

C9_TimeoutEndsAttempt ==
    elapsed => pc \notin {"fetch", "json", "errorJson"}

\* C10: every call of extract terminates, returning an ExtractionResponse or
\* failing with an error.
C10_Terminates == <>Terminated

----------------------------------------------------------------------------
(* Claims about the parser *)

\* the parser was handed a response whose first choice has message content,
\* and has run
ParsedContent ==
    /\ parsePc # "called"
    /\ ~llmResponse.isNull
    /\ llmResponse.hasChoices
    /\ Len(llmResponse.choices) > 0
    /\ llmResponse.choices[1].kind = "message"
    /\ llmResponse.choices[1].text # <<>>

\* the assistant text, and what it decodes to after trimming and the
\* stripping of the fence
AssistantText == llmResponse.choices[1].text
Decoded ==
    JSONparse(stripCodeBlock(trim(AssistantText)), llmResponse.choices[1].json)

\* a JSON object proper: not null, not an array, not a scalar
IsMapping(value) == value.type = "object"

\* the decoded answer meets the contract of C11
MeetsContract(parsed) ==
    /\ IsMapping(Get(parsed, "data"))
    /\ Get(parsed, "confidence").type = "number"
    /\ IsMapping(Get(parsed, "confidenceByField"))

\* C11: the parser returns exactly when the text, trimmed and with its fence
\* stripped, decodes as JSON whose data is a mapping, whose confidence is a
\* number and whose confidenceByField is a mapping; in every other case it
\* throws an LLMError of code INVALID_RESPONSE.
C11_AcceptsExactlyContract ==
    ParsedContent =>
        IF Decoded.ok /\ MeetsContract(Decoded.value)
        THEN parsePc = "returned"
        ELSE /\ parsePc = "thrown"
             /\ extraction.thrown.name = "LLMError"
             /\ extraction.thrown.code = "INVALID_RESPONSE"

\* the parser has run on a valid contract JSON text inside a code fence
FencedValidText ==
    /\ ParsedContent
    /\ MeetsContract(llmResponse.choices[1].json)
    /\ \E w \in FencedWrappings : AssistantText = Wrap(w, <<JsonText>>)

\* what the parser gives for the same JSON text without the fence
UnfencedResult ==
    parseExtractionResponse(
        LLMResponse(<<Choice("message", <<JsonText>>,
                             llmResponse.choices[1].json)>>))

\* C12: a valid contract JSON text inside a code fence, with any language
\* tag or none and with whitespace around it, parses to the same data,
\* confidence and confidenceByField as the text without the fence.
C12_FenceTransparent ==
    FencedValidText =>
        /\ parsePc = "returned"
        /\ extraction = UnfencedResult

\* a number outside [0,100]
OutOfRange(value) ==
    value.type = "number" /\ (value.num < 0 \/ value.num > 100)

\* the decoded answer has an overall confidence, or a value of
\* confidenceByField, outside [0,100]
ConfidenceOutOfRange ==
    /\ Decoded.ok
    /\ \/ OutOfRange(Get(Decoded.value, "confidence"))
       \/ \E k \in DOMAIN Get(Decoded.value, "confidenceByField").obj :
              OutOfRange(Get(Decoded.value, "confidenceByField").obj[k])

\* C13: an answer whose confidence, or a value of whose confidenceByField,
\* lies outside [0,100] is rejected with INVALID_RESPONSE: it is neither
\* accepted as it is nor clamped into the range.
C13_OutOfRangeRejected ==
    (ParsedContent /\ ConfidenceOutOfRange) =>
        /\ parsePc = "thrown"
        /\ extraction.thrown.code = "INVALID_RESPONSE"

\* the keys of a decoded value
Keys(value) == DOMAIN value.obj

\* C14: in every ExtractionResponse returned for a schema, every field name
\* of the schema is a key of both data and confidenceByField; an answer that
\* leaves a schema field out of either is not returned.
C14_EverySchemaFieldPresent ==
    parsePc = "returned" =>
        /\ schemaFields \subseteq Keys(extraction.value.data)
        /\ schemaFields \subseteq Keys(extraction.value.confidenceByField)

\* the value the JSON text of the answer encodes
AnswerJson == llmResponse.choices[1].json

\* C15: on a successful parse the returned data, confidence and
\* confidenceByField are the values decoded from the JSON of the answer, as
\* they are: no type is converted (a numeric string stays a string), nothing
\* is clamped, no key is added or dropped.
C15_NoCoercion ==
    parsePc = "returned" =>
        /\ AnswerJson.type = "object"
        /\ {"data", "confidence", "confidenceByField"} \subseteq Keys(AnswerJson)
        /\ extraction.value.data = AnswerJson.obj["data"]
        /\ extraction.value.confidence = AnswerJson.obj["confidence"]
        /\ extraction.value.confidenceByField =
               AnswerJson.obj["confidenceByField"]

\* an answer with a numeric string, an overall confidence above 100 and a
\* field left out of confidenceByField was returned
C15_Witness ==
    /\ parsePc = "returned"
    /\ extraction.value.data = JObject([amount |-> JString("42")])
    /\ extraction.value.confidence = JNumber(150)
    /\ extraction.value.confidenceByField = JObject(NoProperties)

----------------------------------------------------------------------------
(* Claims about calls running side by side *)

\* a call of extract on its own that has sent its first request
StartedCall == [IdleCall EXCEPT !.pc = "chat", !.requests = 1]

\* the call that runs alone under the policy cfg, after its calls of chat
\* gave the outcomes of script one after the other
RECURSIVE LoneCall(_, _, _)
LoneCall(cfg, script, call) ==
    IF script = <<>> THEN call
    ELSE LET after == IF Head(script).thrown = NoError
                      THEN callReturn(call, Head(script))
                      ELSE callCatch(cfg, call, Head(script))
         IN  IF after.pc = "sleep" /\ Tail(script) # <<>>
             THEN LoneCall(cfg, Tail(script), callSleepResolved(cfg, after))
             ELSE after

\* call c is where the lone call with the same outcomes is: the same
\* attempt, last error, requests, waits and outcome
SameAsAlone(c) ==
    LET lone == LoneCall(retryConfig, calls[c].received, StartedCall)
    IN  \/ calls[c] = lone
        \/ /\ lone.pc = "sleep"
           /\ calls[c] = callSleepResolved(retryConfig, lone)

\* C16: however two calls of extract on one shared client interleave, each
\* call's attempt count, waits and outcome are those of the call running
\* alone against the same outcomes of its requests, and the retry policy of
\* the client is never written.
C16_CallsIndependent ==
    /\ [](\A c \in CallIds : calls[c].pc # "idle" => SameAsAlone(c))
    /\ [][retryConfig' = retryConfig]_vars

\* both calls are in flight, at different attempts and with different last
\* errors
C16_Witness ==
    /\ calls["a"].pc = "sleep"
    /\ calls["a"].attempt = 1
    /\ calls["a"].lastError.code = "RATE_LIMIT"
    /\ calls["b"].pc = "chat"
    /\ calls["b"].attempt = 2
    /\ calls["b"].lastError.code = "TIMEOUT"

----------------------------------------------------------------------------
(* Claims about the failures of extract *)

\* C17: every failure that leaves extract, from the request, the retry loop
\* or the parser, is an LLMError whose code is one of the six LLMErrorCodes.
C17_OnlyClassifiedFailures ==
    pc = "failed" =>
        /\ thrown.name = "LLMError"
        /\ thrown.code \in LLMErrorCodes

----------------------------------------------------------------------------
(* Claims about the extraction pipeline *)

PipelineDone == pipeline.pc = "done"

\* the completion client returned a parsed response
ResponseParsed == pipeline.outcome.thrown = NoError

\* the errors of the result that name a field
FieldErrors == SelectSeq(pipeline.result.errors, LAMBDA e : e.field # "")

FailOnLowConfidence ==
    pipeline.schema.confidence.set /\ pipeline.schema.confidence.failOnLowConfidence

\* C18: the result has success = true if and only if the response was
\* parsed, field validation produced no field error, and meetsThreshold
\* holds or failOnLowConfidence is unset or false.
C18_SuccessIff ==
    PipelineDone =>
        (pipeline.result.success <=>
            /\ ResponseParsed
            /\ FieldErrors = <<>>
            /\ (pipeline.result.meetsThreshold \/ ~FailOnLowConfidence))

\* a parsed answer without field errors is refused for its low confidence
\* alone
C18_Witness ==
    /\ PipelineDone
    /\ ResponseParsed
    /\ FieldErrors = <<>>
    /\ pipeline.schema.confidence.threshold = 80
    /\ pipeline.outcome.value.confidence = JNumber(79)
    /\ FailOnLowConfidence
    /\ ~pipeline.result.success

\* the threshold of the schema, 0 when it sets none
Threshold ==
    IF pipeline.schema.confidence.set
    THEN pipeline.schema.confidence.threshold ELSE 0

\* C19: meetsThreshold is true exactly when the overall confidence of the
\* model is greater than or equal to the threshold of the schema (0 when the
\* schema sets none); a confidence equal to the threshold meets it.
C19_ThresholdInclusive ==
    (PipelineDone /\ ResponseParsed) =>
        (pipeline.result.meetsThreshold <=>
            pipeline.outcome.value.confidence.num >= Threshold)

\* threshold 80 and confidence 80 give meetsThreshold = true
C19_Witness ==
    /\ PipelineDone
    /\ pipeline.schema.confidence.set
    /\ pipeline.schema.confidence.threshold = 80
    /\ pipeline.outcome.value.confidence = JNumber(80)
    /\ pipeline.result.meetsThreshold

\* C20: when the completion client ends in FAILED the result has success =
\* false and exactly one error, whose code is the code of the LLMError, and
\* field validation is not run.
C20_FailedShortCircuits ==
    (PipelineDone /\ ~ResponseParsed) =>
        /\ ~pipeline.result.success
        /\ Len(pipeline.result.errors) = 1
        /\ pipeline.result.errors[1].code = pipeline.outcome.thrown.code
        /\ ~pipeline.result.validated

\* the client failed with RATE_LIMIT and the result's one error carries it
C20_Witness ==
    /\ PipelineDone
    /\ pipeline.outcome.thrown.code = "RATE_LIMIT"
    /\ Len(pipeline.result.errors) = 1
    /\ pipeline.result.errors[1].code = "RATE_LIMIT"

\* the place of the field an error names in the declaration of the schema,
\* 0 for an error that names no field
DeclaredAt(error) ==
    IF error.field = "" THEN 0
    ELSE CHOOSE i \in 1 .. Len(pipeline.schema.fields) :
            pipeline.schema.fields[i].name = error.field

\* the fields whose value in the parsed data breaks their definition
FieldsInError ==
    {def.name : def \in
        {d \in {pipeline.schema.fields[i] :
                    i \in 1 .. Len(pipeline.schema.fields)} :
            validateField(d, Get(pipeline.outcome.value.data, d.name)) # <<>>}}

BreaksTypeOrRange(def, value) ==
    /\ value.type \notin {"undefined", "null"}
    /\ \/ value.type # def.type
       \/ /\ def.type = "number" /\ def.range # <<>>
          /\ (value.num < def.range[1] \/ value.num > def.range[2])

\* the errors of the result on the field name
ErrorsOn(name) ==
    SelectSeq(pipeline.result.errors, LAMBDA e : e.field = name)

----------------------------------------------------------------------------
(* Claims about the prompt builder *)

DeclaredNames(schema) ==
    [i \in 1 .. Len(schema.declared) |-> schema.declared[i][1]]

\* the pieces of a prompt that follow a piece equal to mark, in order
RECURSIVE PiecesAfter(_, _)
PiecesAfter(prompt, mark) ==
    IF Len(prompt) < 2 THEN <<>>
    ELSE (IF prompt[1] = mark THEN <<prompt[2]>> ELSE <<>>)
         \o PiecesAfter(Tail(prompt), mark)

\* the pieces of a prompt that come before a piece equal to mark, in order
RECURSIVE PiecesBefore(_, _)
PiecesBefore(prompt, mark) ==
    IF Len(prompt) < 2 THEN <<>>
    ELSE (IF prompt[2] = mark THEN <<prompt[1]>> ELSE <<>>)
         \o PiecesBefore(Tail(prompt), mark)

\* C25: the system prompt has one field line per field of the schema, one
\* entry per field under data and one under confidenceByField, and each of
\* the three lists names the fields in the order of their declaration, none
\* missing and none twice.
C25_FieldsListedInDeclarationOrder ==
    \A i \in DOMAIN prompts.system :
        /\ PiecesAfter(prompts.system[i], "\n- ") = DeclaredNames(prompts.schema)
        /\ PiecesBefore(prompts.system[i], DataEntry)
               = DeclaredNames(prompts.schema)
        /\ PiecesBefore(prompts.system[i], ConfidenceEntry)
               = DeclaredNames(prompts.schema)

\* the pieces of the line of the field called name: from its "\n- " up to
\* the next field line or the next section
LineOf(prompt, name) ==
    LET start == CHOOSE i \in 1 .. Len(prompt) - 1 :
                     prompt[i] = "\n- " /\ prompt[i + 1] = name
        ends  == {j \in start + 1 .. Len(prompt) :
                     prompt[j] \in {"\n- ", ConfidenceHead, FormatHead}}
        end   == CHOOSE j \in ends : \A k \in ends : j <= k
    IN  SubSeq(prompt, start, end - 1)

\* the prompt carries the annotations of the attributes that the schema
\* sets, and no other; given(attribute) says what counts as set for a
\* description and a pattern
AnnotationsMatch(prompt, schema, given(_)) ==
    /\ \A e \in {schema.declared[i] : i \in DOMAIN schema.declared} :
          LET line == LineOf(prompt, e[1])
              def  == e[2]
          IN  /\ PiecesAfter(line, ": ") = <<def.type>>
              /\ (\E i \in DOMAIN line : line[i] = " (optional)")
                     <=> def.optional = <<TRUE>>
              /\ PiecesAfter(line, " - ")
                     = (IF given(def.description) THEN def.description ELSE <<>>)
              /\ PiecesAfter(line, " - allowed values: ")
                     = (IF def.enum # <<>>
                        THEN <<join(def.enum[1], ", ")>> ELSE <<>>)
              /\ PiecesAfter(line, " - range: ")
                     = (IF def.min # <<>> THEN <<ToString(def.min[1])>>
                        ELSE IF def.max # <<>> THEN <<"-inf">> ELSE <<>>)
              /\ PiecesAfter(line, " to ")
                     = (IF def.max # <<>> THEN <<ToString(def.max[1])>>
                        ELSE IF def.min # <<>> THEN <<"inf">> ELSE <<>>)
              /\ PiecesAfter(line, " - pattern: ")
                     = (IF given(def.pattern) THEN def.pattern ELSE <<>>)
    /\ PiecesAfter(prompt, ConfidenceHead)
           = (IF schema.confidence # <<>>
              THEN <<ToString(schema.confidence[1].threshold)>> ELSE <<>>)

IsSet(attribute) == attribute # <<>>
IsSetAndNotEmpty(attribute) == attribute # <<>> /\ attribute # <<"">>

\* C26 (as stated): a field's line carries an annotation exactly when the
\* field definition sets the attribute: (optional) iff optional is true,
\* the description iff one is given, allowed values iff enum is given, the
\* range iff min or max is defined, the pattern iff one is given; and the
\* confidence block with the threshold appears iff the schema has a
\* confidence policy.
C26_AnnotationsIffSet ==
    \A i \in DOMAIN prompts.system :
        AnnotationsMatch(prompts.system[i], prompts.schema, IsSet)

\* C26 (amended): as above, where the description and the pattern are
\* shown iff they are given and not the empty string.
C26_AnnotationsIffSetAndNotEmpty ==
    \A i \in DOMAIN prompts.system :
        AnnotationsMatch(prompts.system[i], prompts.schema, IsSetAndNotEmpty)

\* a prompt was built for a schema with a confidence policy whose first
\* field has an empty description and whose second has a range and is
\* optional
C26_Witness ==
    /\ prompts.system # <<>>
    /\ prompts.schema.confidence # <<>>
    /\ Len(prompts.schema.declared) = 2
    /\ prompts.schema.declared[1][2].description = <<"">>
    /\ prompts.schema.declared[2][2].optional = <<TRUE>>
    /\ prompts.schema.declared[2][2].max = <<100>>

----------------------------------------------------------------------------
(* Claims about the request *)

C23_WitnessAuthorized ==
    /\ Len(sent) = 2
    /\ config.apiKey = <<"sk-test">>
    /\ sent[2].init.headers["Authorization"] = "Bearer sk-test"

----------------------------------------------------------------------------
(* Claims about the schema loader *)

\* a loader has returned or thrown
LoaderDone == loader.pc \in {"returned", "thrown"}

\* the raw schema that the loader got to validate, if it got that far
RawGiven ==
    IF \/ loader.fn = "loadSchemaFromObject"
       \/ /\ loader.fn \in {"loadSchema", "parseSchema"}
          /\ loader.file.access = "ok"
          /\ loader.file.read = "ok"
          /\ trim(loader.file.text) = <<JsonText>>
    THEN <<loader.file.json>> ELSE <<>>

\* the defects of a raw schema
FieldsMissingOrEmpty(raw) == raw.fields = <<>> \/ raw.fields[1] = <<>>
RawDefs(raw) == {raw.fields[1][i][2] : i \in DOMAIN raw.fields[1]}
Defective(raw) ==
    \/ FieldsMissingOrEmpty(raw)
    \/ \E def \in RawDefs(raw) :
          \/ def.type = <<>>
          \/ def.enum # <<>> /\ Len(def.enum[1]) = 0
          \/ def.min # <<>> /\ def.max # <<>> /\ def.min[1] > def.max[1]
          \/ def.pattern # <<>> /\ def.pattern[1] \in InvalidPatterns
    \/ /\ raw.metadata # <<>>
       /\ \/ raw.metadata[1].type # "object"
          \/ \E k \in Keys(raw.metadata[1]) :
                raw.metadata[1].obj[k].type # "string"

\* C27: a raw schema whose fields is missing or empty, one of whose fields
\* lacks type, has an empty enum, has min > max or a pattern that is no
\* regular expression, or whose metadata is malformed, is rejected:
\* loadSchema, parseSchema and loadSchemaFromObject each throw a
\* SchemaValidationError for it and return no schema.
C27_DefectiveSchemaRejected ==
    (LoaderDone /\ RawGiven # <<>> /\ Defective(RawGiven[1])) =>
        /\ loader.pc = "thrown"
        /\ loader.error.name = "SchemaValidationError"
        /\ loader.returned = <<>>

\* loadSchema read a file whose only defect is a field with min > max, and
\* threw
C27_Witness ==
    /\ loader.fn = "loadSchema"
    /\ loader.pc = "thrown"
    /\ loader.steps = <<"access", "readFile", "JSON.parse", "validateSchema">>
    /\ loader.file.json =
           RawSchema(<<<<<<"name", RawField(<<"number">>, <<>>, <<100>>, <<50>>,
                                            <<>>)>>>>>>, <<>>)

\* parseSchema and loadSchemaFromObject threw for a schema without fields
C27_WitnessParse ==
    /\ loader.fn = "parseSchema"
    /\ loader.pc = "thrown"
    /\ loader.steps = <<"JSON.parse", "validateSchema">>
    /\ loader.file.json.fields = <<>>
C27_WitnessObject ==
    /\ loader.fn = "loadSchemaFromObject"
    /\ loader.pc = "thrown"
    /\ loader.file.json.fields = <<>>

LoadSteps == <<"access", "readFile", "JSON.parse", "validateSchema">>

C30_WitnessMissing ==
    /\ loader.fn = "loadSchema"
    /\ loader.pc = "thrown"
    /\ loader.file.access = "ENOENT"
C30_WitnessUnreadable ==
    /\ loader.fn = "loadSchema"
    /\ loader.pc = "thrown"
    /\ loader.file.access = "EACCES"

----------------------------------------------------------------------------
(* Claims about the extract command *)

\* C29: when loading the schema fails in the extract command (file not
\* readable, no JSON, or a schema that fails validation), the pipeline is
\* never invoked, no request is sent, no step of the load is tried again,
\* and the run ends with exit code 1.
C29_SchemaErrorBeforeNetwork ==
    loader.pc = "thrown" =>
        /\ cli.extractCalls = 0
        /\ cli.requests = 0
        /\ requests = 0
        /\ \A i, j \in DOMAIN loader.steps :
              loader.steps[i] = loader.steps[j] => i = j
        /\ cli.pc \in {"loadSchema", "exited"}
        /\ cli.pc = "exited" =>
              /\ cli.exitCode = <<1>>
              /\ cli.stdout = <<>>
              /\ cli.stderr[1].errors[1].message = loader.error.message

\* the run ended after validation rejected the schema that was read
C29_Witness ==
    /\ cli.pc = "exited"
    /\ loader.pc = "thrown"
    /\ loader.steps = <<"access", "readFile", "JSON.parse", "validateSchema">>
    /\ cli.exitCode = <<1>>

\* the run ended after the schema file could not be read, and after it was
\* no JSON
C29_WitnessUnreadable ==
    /\ cli.pc = "exited"
    /\ loader.pc = "thrown"
    /\ loader.steps = <<"access">>
C29_WitnessNoJson ==
    /\ cli.pc = "exited"
    /\ loader.pc = "thrown"
    /\ loader.steps = <<"access", "readFile", "JSON.parse">>

----------------------------------------------------------------------------
(* Claims about the waits, the timers and the attempts of the retry loop *)

\* C35: every wait the retry loop performs, the one computed from the
\* Retry-After header of a 429 response included, whatever the header says,
\* is a finite number of milliseconds in [0, maxDelay].
C35_WaitWithinMaxDelay ==
    pc = "sleep" =>
        /\ ~delay.nan
        /\ 0 <= delay.t
        /\ delay.t <= retryConfig.maxDelay * TicksPerMs

\* an attempt is under way: the call is suspended in the fetch of chat or in
\* the reading of the body of its response
InFlight == pc \in {"fetch", "json", "errorJson"}

\* C36: the retry loop is sequential. A request is sent only when no other
\* is in flight, from the start of the call or at the end of a wait; a wait
\* begins only when the attempt before it has ended, so no request is in
\* flight during a wait; a call that has made k attempts has made k - 1
\* waits, one between consecutive attempts, and none after the last.
C36_StrictlySequential ==
    /\ [](/\ InFlight => requests = sleeps + 1
          /\ pc = "sleep" => requests = sleeps
          /\ (pc \in {"done", "failed"} /\ requests > 0)
                 => sleeps = requests - 1)
    /\ [][/\ requests' # requests =>
                /\ requests' = requests + 1
                /\ ~InFlight
                /\ pc \in {"idle", "sleep"}
                /\ pc' = "fetch"
          /\ sleeps' # sleeps =>
                /\ sleeps' = sleeps + 1
                /\ InFlight
                /\ pc' = "sleep"
                /\ requests' = requests]_vars

\* a call failed at its third attempt, after two waits
C36_Witness ==
    /\ pc = "failed"
    /\ requests = 3
    /\ sleeps = 2
    /\ attempt = 2

\* C37: each attempt has its own timeout timer, armed when the attempt
\* starts and cleared or fired by the time the fetch of the attempt ends,
\* whichever way it ends (response, error status, transport error); so no
\* timer is armed during a wait or after the call, a timer fires only while
\* the fetch of its own attempt is pending, and a wait can only end in the
\* next attempt, which arms a timer of its own.
C37_TimerPerAttempt ==
    /\ [](/\ timer = "armed" <=> pc = "fetch"
          /\ pc \in {"sleep", "done", "failed"}
                 => timer \in {"cleared", "fired"} \/ requests = 0)
    /\ [][/\ (timer' = "fired" /\ timer # "fired") =>
                /\ pc = "fetch"
                /\ timer = "armed"
                /\ requests' = requests
                /\ lastError'.code = "TIMEOUT"
          /\ (timer' = "armed" /\ timer # "armed") =>
                /\ requests' = requests + 1
                /\ pc' = "fetch"
          /\ (pc = "sleep" /\ pc' # "sleep") =>
                /\ pc' = "fetch"
                /\ timer' = "armed"]_vars

\* the first attempt was aborted by its timer and the second attempt is
\* pending with a timer of its own
C37_Witness ==
    /\ pc = "fetch"
    /\ requests = 2
    /\ timer = "armed"
    /\ lastError.code = "TIMEOUT"
    /\ ~elapsed

----------------------------------------------------------------------------
(* Claims about what extract reads of the response *)

\* the response has a first choice with a message
HasMessage(resp) ==
    /\ ~resp.isNull
    /\ resp.hasChoices
    /\ Len(resp.choices) > 0
    /\ resp.choices[1].kind = "message"

\* two responses agree on choices[0].message.content
SameContent(a, b) ==
    /\ HasMessage(a)
    /\ HasMessage(b)
    /\ a.choices[1].text = b.choices[1].text
    /\ a.choices[1].json = b.choices[1].json

\* C38: the outcome of extract depends on the response only through
\* choices[0].message.content: every response that agrees with the one
\* parsed on that content, whatever its further choices, role,
\* finish_reason, usage, id and model, gives the same ExtractionResponse or
\* the same error.
C38_OnlyFirstContentRead ==
    parsePc # "called" =>
        \A other \in VariedResponses :
            SameContent(other, llmResponse)
                => parseExtractionResponse(other) = extraction

\* a response with two choices was parsed and its first content returned,
\* and another response with that content and nothing else in common exists
C38_Witness ==
    /\ parsePc = "returned"
    /\ Len(llmResponse.choices) = 2
    /\ llmResponse.choices[2].kind = "message"
    /\ llmResponse.rest.id = "chatcmpl-1"
    /\ \E other \in VariedResponses :
          /\ SameContent(other, llmResponse)
          /\ Len(other.choices) = 1
          /\ other.rest.id = "chatcmpl-2"

----------------------------------------------------------------------------
(* Claims about what a call that retried ends with *)

\* what the attempt in progress, or the last one made, ended with: the error
\* chat throws for the timer, the rejection, the status and the body of that
\* attempt alone, or the error parseExtractionResponse throws for its body
ErrorOfLastAttempt ==
    IF timer = "fired" THEN chatCatch(PlainError("AbortError"))
    ELSE IF response = NoResponse THEN chatCatch(PlainError("TypeError"))
    ELSE IF ~ok(response.status)
    THEN handleErrorResponse(response, response.body)
    ELSE IF response.body \in JsonRejections
    THEN chatCatch(PlainError(response.body))
    ELSE parseExtractionResponse(ResponseOfBody(response.body)).thrown

\* C39: when extract fails after one or more retries, the error it fails with
\* is the error of the last attempt made (code, status code, message), not
\* that of an earlier attempt; when an attempt succeeds after earlier
\* failures, nothing of those failures is in what extract ends with
C39_LastAttemptDecides ==
    /\ (pc = "failed" /\ sleeps >= 1) => thrown = ErrorOfLastAttempt
    /\ (pc = "done" /\ sleeps >= 1) =>
          /\ thrown = NoError
          /\ ErrorOfLastAttempt = NoError

\* the first attempt was answered 429 with Retry-After: 20 (the only way to a
\* first wait of maxDelay under the default policy), the second 401: extract
\* failed with the authentication error
C39_Witness ==
    /\ pc = "failed"
    /\ retryConfig = DefaultRetryConfig
    /\ requests = 2
    /\ sleeps = 1
    /\ delay = Num(DefaultMaxDelay * TicksPerMs)
    /\ thrown.code = "AUTHENTICATION_ERROR"
    /\ thrown.statusCode = 401

\* an attempt succeeded after two that failed
C39_WitnessSuccess ==
    /\ pc = "done"
    /\ sleeps = 2
    /\ lastError # NoError
    /\ thrown = NoError

----------------------------------------------------------------------------
(* Claims about the request over the attempts of a call *)

\* C40: all attempts of one call of extract send the same request: model,
\* messages, temperature and max_tokens are built once, before the first
\* attempt, from the config and the options, and do not change between
\* retries; the options of the caller (schema, input, systemPrompt) and the
\* config are not modified by the call
C40_SameRequestEveryAttempt ==
    /\ [](/\ \A i, j \in DOMAIN sent : sent[i] = sent[j]
          /\ request # NoRequest => request = LLMRequest(config, options))
    /\ [][/\ options' = options
          /\ config' = config
          /\ request # NoRequest => request' = request
          /\ sent' # sent =>
                sent' = Append(sent,
                               [url  |-> config.baseURL \o "/chat/completions",
                                init |-> fetchInit(config, request')])]_vars

\* a retry was sent, for a call without systemPrompt by a client whose
\* config left temperature out, and the call has ended
C40_Witness ==
    /\ pc \in {"done", "failed"}
    /\ Len(sent) = 2
    /\ sent[1] = sent[2]
    /\ options.systemPrompt = <<>>
    /\ options.schema = PersonSchema
    /\ sent[2].init.body["messages"][1].content
          = <<buildSystemPrompt(PersonSchema)>>
    /\ sent[2].init.body["temperature"] = DefaultTemperature

----------------------------------------------------------------------------
(* Claims about the command line *)

\* the run of the extract command got past the checks of its arguments
\* and has ended
ExtractRunEnded ==
    /\ cli.pc = "exited"
    /\ cli.args.command = <<"extract">>
    /\ missingArgument(cli.args) = ""

\* C31: the extract command exits with code 0 and prints the result JSON on
\* stdout exactly when the pipeline result has success = true; in every
\* other case (a result with success = false, or an error thrown while
\* loading, reading or extracting) it exits with code 1 and prints on stderr
\* a JSON object with success: false and an errors list, keeping the partial
\* data when the pipeline returned some
C31_ResultOrStructuredError ==
    ExtractRunEnded =>
        IF /\ cli.outcome # <<>>
           /\ cli.outcome[1].kind = "returned"
           /\ cli.outcome[1].result.success
        THEN /\ cli.exitCode = <<0>>
             /\ cli.stderr = <<>>
             /\ Len(cli.stdout) = 1
             /\ cli.stdout[1]["success"] = TRUE
             /\ cli.stdout[1]["data"] = cli.outcome[1].result.data[1]
             /\ cli.stdout[1]["confidence"] = cli.outcome[1].result.confidence
        ELSE /\ cli.exitCode = <<1>>
             /\ cli.stdout = <<>>
             /\ Len(cli.stderr) = 1
             /\ cli.stderr[1]["success"] = FALSE
             /\ "errors" \in DOMAIN cli.stderr[1]
             /\ IF cli.outcome # <<>> /\ cli.outcome[1].kind = "returned"
                THEN /\ cli.stderr[1]["errors"] = cli.outcome[1].result.errors
                     /\ cli.outcome[1].result.data # <<>> =>
                           /\ "data" \in DOMAIN cli.stderr[1]
                           /\ cli.stderr[1]["data"]
                                 = cli.outcome[1].result.data[1]
                ELSE Len(cli.stderr[1]["errors"]) = 1

\* the pipeline returned a failure with partial data, which the run wrote
\* to stderr with the field error before it exited with 1
C31_Witness ==
    /\ ExtractRunEnded
    /\ cli.outcome # <<>>
    /\ cli.outcome[1].kind = "returned"
    /\ ~cli.outcome[1].result.success
    /\ cli.exitCode = <<1>>
    /\ "data" \in DOMAIN cli.stderr[1]
    /\ cli.stderr[1]["data"] = [name |-> "John", age |-> "old"]
    /\ cli.stderr[1]["errors"][1].code = "TYPE_MISMATCH"

\* the pipeline returned a success, and the run exited with 0
C31_WitnessSuccess ==
    /\ ExtractRunEnded
    /\ cli.exitCode = <<0>>
    /\ cli.stdout[1]["success"] = TRUE

\* extract threw an error without a code, and the run exited with 1
C31_WitnessThrown ==
    /\ ExtractRunEnded
    /\ cli.outcome # <<>>
    /\ cli.outcome[1].kind = "thrown"
    /\ cli.stderr[1]["errors"][1].code = "UNKNOWN_ERROR"

\* the run ended with exit code 1 and a first line on stderr that starts
\* with prefix, and no file was looked at, the pipeline was not called and
\* no request was sent
RejectedWith(prefix) ==
    /\ cli.pc = "exited"
    /\ cli.exitCode = <<1>>
    /\ cli.stdout = <<>>
    /\ Len(cli.stderr) >= 1
    /\ startsWith(cli.stderr[1], prefix)
    /\ loader = LoaderIdle
    /\ cli.extractCalls = 0
    /\ cli.requests = 0
    /\ requests = 0

RequiredOptions == <<"schema", "input", "base", "model">>

C32_WitnessNoCommand ==
    /\ cli.argv = <<"--debug">>
    /\ RejectedWith("Error: No command specified")
C32_WitnessUnknownCommand ==
    /\ cli.argv = <<"unknown">>
    /\ RejectedWith("Error: Unknown command \"unknown\"")

HelpFlags == {"--help", "-h", "--version", "-v"}

\* the run printed the help or the version text and exited with 0, no
\* argument was checked, no file looked at and no extraction run
HelpOrVersionShown ==
    /\ cli.pc = "exited"
    /\ cli.exitCode = <<0>>
    /\ cli.outcome = <<>>
    /\ cli.stdout \in {<<HelpText>>, <<VersionText>>}
    /\ cli.stderr = <<>>
    /\ loader = LoaderIdle
    /\ cli.extractCalls = 0
    /\ cli.requests = 0

\* C33: whenever --help, -h, --version or -v occurs anywhere among the
\* arguments, the run prints the help or the version text and exits with
\* code 0, without checking the command or the required options and without
\* running an extraction
C33_HelpFlagAnywhere ==
    (cli.pc # "idle" /\ \E i \in DOMAIN cli.argv : cli.argv[i] \in HelpFlags)
        => HelpOrVersionShown

\* the word at place i is what parseArgs takes as the value of the option
\* before it
RECURSIVE takenAsValue(_, _)
takenAsValue(args, i) ==
    /\ i > 1
    /\ args[i - 1] \in {"--schema", "--input", "--base", "--model"}
    /\ args[i] # ""
    /\ ~takenAsValue(args, i - 1)

\* what does hold: a flag that is not in the place of an option's value
\* ends the run with the help or the version text
C33_HelpFlagNotAValue ==
    (/\ cli.pc # "idle"
     /\ \E i \in DOMAIN cli.argv :
           cli.argv[i] \in HelpFlags /\ ~takenAsValue(cli.argv, i))
        => HelpOrVersionShown

\* --help after the complete extract command line ended the run with the
\* help text
C33_WitnessHelpLast ==
    /\ cli.argv = FullArgv("invoice.schema.json") \o <<"--help">>
    /\ HelpOrVersionShown
    /\ cli.stdout = <<HelpText>>

\* --help right after --schema was taken as the path of the schema, and
\* the run ended with exit code 1
C33_WitnessTakenAsValue ==
    /\ cli.argv = <<"--schema", "--help">>
    /\ cli.pc = "exited"
    /\ cli.args.schema = <<"--help">>
    /\ cli.exitCode = <<1>>

\* the complete extract command line with --api-key sk-test after it, as the
\* README writes it, or before it
ApiKeyArgvs ==
    {FullArgv(path) \o <<"--api-key", "sk-test">> : path \in FilePaths}
    \cup {<<"--api-key", "sk-test">> \o FullArgv(path) : path \in FilePaths}

\* the headers of the completion requests of a client made from the
\* llmConfig that runExtraction hands to extract
CompletionHeaders ==
    LET cfg == newConfig(cli.llmConfig[1])
    IN  fetchInit(cfg,
                  LLMRequest(cfg, ExtractionOptions(PersonSchema,
                                                    "My name is John",
                                                    <<>>))).headers

\* C34: ordis extract with the four required options and --api-key <key>
\* runs the extraction (the command is still taken to be extract), and the
\* key is the Bearer credential of the completion requests
C34_ApiKeyIsBearerCredential ==
    (cli.pc # "idle" /\ cli.argv \in ApiKeyArgvs) =>
        /\ cli.args.command = <<"extract">>
        /\ ~RejectedWith("Error: Unknown command")
        /\ cli.llmConfig # <<>> =>
              /\ "Authorization" \in DOMAIN CompletionHeaders
              /\ CompletionHeaders["Authorization"] = "Bearer sk-test"

\* the command line of the README ended as the unknown command sk-test
C34_KeyTakenAsCommand ==
    /\ cli.argv = FullArgv("invoice.schema.json") \o <<"--api-key", "sk-test">>
    /\ cli.args.command = <<"sk-test">>
    /\ RejectedWith("Error: Unknown command \"sk-test\"")

\* with --api-key sk-test before the command the extraction ran, with
\* requests that carry no Authorization header
C34_KeyNotHandedOn ==
    /\ cli.argv = <<"--api-key", "sk-test">> \o FullArgv("invoice.schema.json")
    /\ cli.args.command = <<"extract">>
    /\ cli.pc = "exited"
    /\ cli.extractCalls = 1
    /\ cli.llmConfig # <<>>
    /\ cli.llmConfig[1].apiKey = <<>>
    /\ "Authorization" \notin DOMAIN CompletionHeaders

============================================================================
